---- MODULE Spec2Model ----
(***************************************************************************)
(* Credential lifecycle, keyed settings, chat auto-reply and the          *)
(* automation scheduler of the Google-AI-Worker backend, as state         *)
(* machines over the files under DATA_DIR, the per-user remote blob and   *)
(* the external collaborators (token endpoint, Chat API, agent).          *)
(*                                                                         *)
(* Each component has its own specification (SpecKeys, SpecTok, ...);     *)
(* the variables of the other components are parked at a fixed value.     *)
(***************************************************************************)
EXTENDS Integers, Sequences, FiniteSets, TLC

VARIABLES
    api_keys_file,  \* DATA_DIR/api_keys.json: [exists, data], data: hash -> user_id
    generated,      \* ghost: raw key -> user, every key generate_api_key returned
    live,           \* ghost: the generated keys not revoked since
    lookup,         \* the last get_user_by_api_key call: [done, key, result]
    revoked,        \* the last revoke_api_key call: [done, user_id, ret] and
                    \* ghosts: the index file before it, whether a key of
                    \* the user was live
    tok,            \* one refresh_credentials_if_needed call: [pc, creds, now, ep, ...]
    chat,           \* one run_chat_auto_reply call: its arguments, what the
                    \* collaborators answer, its position and its effects
    auto,           \* one run_all_workflows_for_user call: its arguments, what
                    \* the workflows do, its position and its results
    store,          \* the files of DATA_DIR per user and each user's Drive blob
    hist,           \* the storage calls made: their number, the last call and
                    \* its result, and ghosts of what was saved and cleared
    sched,          \* one pass of _run_automation_for_all_users: its position,
                    \* its counters and what happened to each user
    settings,       \* the settings calls made on the store: their number, the
                    \* last call and its result, and ghosts of what each
                    \* successful write reported as saved
    names,          \* one user id on its way through _safe_filename and list_users
    conv,            \* the conversation identifiers sent to the agent
    authn,           \* one request to a protected endpoint: its bearer credentials, its
                    \* session, and what get_current_user made of them
    xchg,            \* one exchange_code_for_credentials call: the answer of the token
                    \* endpoint and what the call returned or raised
    dir,             \* DATA_DIR by file name, for users whose ids are spelled out, and
                    \* the user the last storage call was made for
    passes,          \* the one-off pass and the interval job of startup_event
    race            \* two threads in generate_api_key and revoke_api_key on the one index file

keyVars == <<api_keys_file, generated, live, lookup, revoked>>
tokVars == <<tok>>
chatVars == <<chat>>
autoVars == <<auto>>
storeVars == <<store, hist>>
schedVars == <<sched>>
settingsVars == <<settings>>
namesVars == <<names>>
convVars == <<conv>>
depsVars == <<authn>>
xchgVars == <<xchg>>
dirVars == <<dir>>
passVars == <<passes>>
raceVars == <<race>>
vars == <<api_keys_file, generated, live, lookup, revoked, tok, chat, auto, store, hist, sched, settings, names, conv, authn, xchg, dir, passes, race>>

(***************************************************************************)
(* Values shared by the components                                         *)
(***************************************************************************)

\* Python's None, for the string-valued fields.
None == "None"

\* The user ids (e-mail addresses) of the model.
Users == {"a@x.co", "b@y.co"}

\* Decimal digits, to build distinct strings from small numbers.
Digit == <<"1", "2", "3", "4", "5", "6", "7", "8", "9">>

(***************************************************************************)
(* KeyedSecretStore: the API-key index (storage.py)                        *)
(***************************************************************************)

\* How many keys generate_api_key is called for.
MaxKeys == 3

\* A dict with no entries.
EmptyDict == [h \in {} |-> None]

\* data[k] = v of a Python dict.
DictSet(d, k, v) == [x \in (DOMAIN d) \cup {k} |-> IF x = k THEN v ELSE d[x]]

\* f"ge_{secrets.token_urlsafe(32)}": the n-th distinct draw of the generator.
\* 256 random bits: a repeated draw is taken to be impossible.
RawKey(n) == "ge_" \o Digit[n]

RawKeys == {RawKey(n) : n \in 1..MaxKeys}

\* hashlib.sha256(key.encode()).hexdigest(): one digest per input, distinct
\* inputs have distinct digests, and a digest is not itself one of the inputs'
\* digests.
_hash_api_key(key) == "sha256:" \o key

\* The strings a caller may present as an API key: the raw keys, the empty
\* string, a string never issued, and the stored digests themselves.
LookupStrings == RawKeys \cup {"", "invalid"} \cup {_hash_api_key(k) : k \in RawKeys}

_load_api_keys == IF api_keys_file.exists THEN api_keys_file.data ELSE EmptyDict

_save_api_keys(data) == api_keys_file' = [exists |-> TRUE, data |-> data]

\* A faulty variant: the presented string is looked up without hashing.
get_user_by_api_key_raw(data, api_key) ==
    IF api_key \in DOMAIN data THEN data[api_key] ELSE None

\* _load_api_keys().get(_hash_api_key(api_key))
get_user_by_api_key(data, api_key) ==
    IF _hash_api_key(api_key) \in DOMAIN data THEN data[_hash_api_key(api_key)] ELSE None

\* A faulty variant: only one of the user's entries is dropped.
RevokeFilter_one(data, user_id) ==
    IF \E x \in DOMAIN data : data[x] = user_id
    THEN LET gone == CHOOSE x \in DOMAIN data : data[x] = user_id
         IN [h \in (DOMAIN data) \ {gone} |-> data[h]]
    ELSE data

\* {h: u for h, u in data.items() if u != user_id}
RevokeFilter(data, user_id) ==
    [h \in {x \in DOMAIN data : data[x] # user_id} |-> data[h]]

NoRevoke == [done |-> FALSE, user_id |-> None, ret |-> FALSE,
             before |-> [exists |-> FALSE, data |-> EmptyDict], had |-> FALSE]

GenerateApiKey(user_id) ==
    /\ Cardinality(DOMAIN generated) < MaxKeys
    /\ LET key == RawKey(Cardinality(DOMAIN generated) + 1)
           data == DictSet(_load_api_keys, _hash_api_key(key), user_id)
       IN /\ _save_api_keys(data)
          /\ generated' = DictSet(generated, key, user_id)
          /\ live' = live \cup {key}
    /\ lookup' = [done |-> FALSE, key |-> "", result |-> None]
    /\ revoked' = NoRevoke
    /\ UNCHANGED <<tokVars, chatVars, autoVars, storeVars, schedVars, settingsVars, namesVars, convVars, depsVars, xchgVars, dirVars, passVars, raceVars>>

RevokeApiKey(user_id) ==
    /\ LET data == _load_api_keys
           kept == RevokeFilter(data, user_id)
           ret == Cardinality(DOMAIN kept) < Cardinality(DOMAIN data)
       IN /\ IF ret THEN _save_api_keys(kept) ELSE UNCHANGED api_keys_file
          /\ revoked' = [done |-> TRUE, user_id |-> user_id, ret |-> ret,
                         before |-> api_keys_file,
                         had |-> \E k \in live : generated[k] = user_id]
    /\ live' = {k \in live : generated[k] # user_id}
    /\ lookup' = [done |-> FALSE, key |-> "", result |-> None]
    /\ UNCHANGED <<generated, tokVars, chatVars, autoVars, storeVars, schedVars, settingsVars, namesVars, convVars, depsVars, xchgVars, dirVars, passVars, raceVars>>

GetUserByApiKey(api_key) ==
    /\ lookup' = [done |-> TRUE, key |-> api_key,
                  result |-> get_user_by_api_key(_load_api_keys, api_key)]
    /\ UNCHANGED <<api_keys_file, generated, live, revoked, tokVars, chatVars, autoVars, storeVars, schedVars, settingsVars, namesVars, convVars, depsVars, xchgVars, dirVars, passVars, raceVars>>

KeysInit ==
    /\ api_keys_file = [exists |-> FALSE, data |-> EmptyDict]
    /\ generated = EmptyDict
    /\ live = {}
    /\ lookup = [done |-> FALSE, key |-> "", result |-> None]
    /\ revoked = NoRevoke

KeysNext ==
    \/ \E u \in Users : GenerateApiKey(u)
    \/ \E u \in Users : RevokeApiKey(u)
    \/ \E k \in LookupStrings : GetUserByApiKey(k)

(***************************************************************************)
(* TokenLifecycle (auth/google_oauth.py)                                   *)
(***************************************************************************)

\* The clock runs over 0..MaxTime (one unit is one token-lifetime quantum).
MaxTime == 3

\* The longest expires_in the token endpoint answers with, in clock units.
MaxLifetime == 2

\* A datetime: a wall-clock reading, naive (tzinfo None) or aware with a UTC
\* offset; set = FALSE is Python's None.
NoExpiry == [set |-> FALSE, wall |-> 0, aware |-> FALSE, off |-> 0]

Naive(w) == [set |-> TRUE, wall |-> w, aware |-> FALSE, off |-> 0]

Aware(w, o) == [set |-> TRUE, wall |-> w, aware |-> TRUE, off |-> o]

\* The UTC offsets of the aware datetimes of the model.
Offsets == {-1, 0, 1}

\* The instant a datetime denotes (a naive one is read as UTC).
Instant(e) == IF e.aware THEN e.wall - e.off ELSE e.wall

\* expiry.astimezone(timezone.utc) for an aware datetime
astimezone_utc(e) == Aware(e.wall - e.off, 0)

\* expiry.replace(tzinfo=None)
replace_tzinfo_none(e) == Naive(e.wall)

_normalize_expiry_to_naive_utc(expiry) ==
    replace_tzinfo_none(IF expiry.aware THEN astimezone_utc(expiry) ELSE expiry)

\* Python truthiness of an optional string (None and "" are falsy).
Truthy(s) == s \notin {None, ""}

TOKEN_URI == "https://oauth2.googleapis.com/token"

\* google.oauth2.credentials.Credentials, the fields the program uses.
Creds(token, refresh_token, expiry, scopes) ==
    [token |-> token, refresh_token |-> refresh_token, token_uri |-> TOKEN_URI,
     client_id |-> "cid", client_secret |-> "csec", scopes |-> scopes, expiry |-> expiry]

\* What the token endpoint does with a refresh grant: a new access token
\* ("ok"), also a new refresh token ("rotate"), or an error.
EpKinds == {"ok", "rotate", "invalid_grant", "scope", "network"}

EpOutcomes ==
    {[kind |-> k, life |-> l] : k \in {"ok", "rotate"}, l \in 1..MaxLifetime}
        \cup {[kind |-> k, life |-> 1] : k \in {"invalid_grant", "scope", "network"}}

\* The access token the endpoint issues at time now.
NewToken(now) == "t" \o Digit[now + 1]

\* creds.refresh(Request()): the credential is updated in place, or the
\* endpoint's error is raised (err is the lower-cased message's class).
refresh(creds, now, ep) ==
    IF ep.kind \in {"ok", "rotate"}
    THEN [creds |-> [creds EXCEPT !.token = NewToken(now),
                                  !.expiry = Naive(now + ep.life),
                                  !.refresh_token =
                                      IF ep.kind = "rotate" THEN "r_rot" ELSE @],
          raised |-> FALSE, err |-> "", decided |-> TRUE, needs_refresh |-> TRUE,
          endpoint_calls |-> 1]
    ELSE [creds |-> creds, raised |-> TRUE, err |-> ep.kind, decided |-> TRUE,
          needs_refresh |-> TRUE, endpoint_calls |-> 1]

\* expiry_ok of refresh_credentials_if_needed, now_utc being naive UTC
expiry_ok(creds, now_utc) ==
    IF creds.expiry.set
    THEN IF ~creds.expiry.aware
         THEN creds.expiry.wall >= now_utc
         ELSE replace_tzinfo_none(astimezone_utc(creds.expiry)).wall >= now_utc
    ELSE FALSE

needs_refresh(creds, now_utc) ==
    \/ creds.token = None
    \/ (creds.token # None /\ ~creds.expiry.set)
    \/ (creds.expiry.set /\ ~expiry_ok(creds, now_utc))

\* A faulty variant: the guard on refresh_token is missing.
refresh_credentials_if_needed_unguarded(creds, now, ep) ==
    IF needs_refresh(creds, now)
    THEN refresh(creds, now, ep)
    ELSE [creds |-> creds, raised |-> FALSE, err |-> "", decided |-> TRUE,
          needs_refresh |-> FALSE, endpoint_calls |-> 0]

\* Returns the credential, whether the call raised, the decision taken and
\* the number of calls made to the token endpoint.
refresh_credentials_if_needed(creds, now, ep) ==
    IF ~Truthy(creds.refresh_token)
    THEN [creds |-> creds, raised |-> FALSE, err |-> "", decided |-> FALSE,
          needs_refresh |-> FALSE, endpoint_calls |-> 0]
    ELSE IF needs_refresh(creds, now)
         THEN refresh(creds, now, ep)
         ELSE [creds |-> creds, raised |-> FALSE, err |-> "", decided |-> TRUE,
               needs_refresh |-> FALSE, endpoint_calls |-> 0]

\* The expiry values of the model: none, naive and aware readings.
Expiries ==
    {NoExpiry} \cup {Naive(w) : w \in 0..MaxTime}
        \cup {Aware(w, o) : w \in 0..MaxTime, o \in Offsets}

NoResult ==
    [creds |-> Creds(None, None, NoExpiry, {}), raised |-> FALSE, err |-> "",
     decided |-> FALSE, needs_refresh |-> FALSE, endpoint_calls |-> 0]

TokParked ==
    [pc |-> "parked", creds |-> Creds(None, None, NoExpiry, {}), now |-> 0,
     ep |-> [kind |-> "ok", life |-> 1], out |-> NoResult]

TokPark == tok = TokParked

TokInit ==
    \E t \in {None, "t0"}, r \in {None, "", "r1"}, e \in Expiries,
       n \in 0..MaxTime, ep \in EpOutcomes :
        tok = [pc |-> "start", creds |-> Creds(t, r, e, {"s1"}), now |-> n,
               ep |-> ep, out |-> NoResult]

RefreshCredentialsIfNeeded ==
    /\ tok.pc = "start"
    /\ tok' = [tok EXCEPT !.pc = "done",
                          !.out = refresh_credentials_if_needed(tok.creds, tok.now, tok.ep)]
    /\ UNCHANGED <<keyVars, chatVars, autoVars, storeVars, schedVars, settingsVars, namesVars, convVars, depsVars, xchgVars, dirVars, passVars, raceVars>>

TokNext == RefreshCredentialsIfNeeded

(***************************************************************************)
(* WorkflowOrchestrator.run_chat_auto_reply (services/orchestrator.py)     *)
(***************************************************************************)

\* The longest list of messages the Chat API answers with.
MaxMsgs == 2

\* The largest reply_to_latest a caller passes.
MaxReply == 2

\* page_size = reply_to_latest + 10
PageExtra == 10

\* str.lower() on the addresses of the model.
Lower(s) == IF s = "A@X.CO" THEN "a@x.co" ELSE s

Min(a, b) == IF a <= b THEN a ELSE b

\* s[:n]
Take(s, n) == SubSeq(s, 1, Min(n, Len(s)))

\* The space the call is for, and another space of the same user.
SpaceA == "spaces/A"

SpaceB == "spaces/B"

\* What fetch_chat_spaces answers: nothing (no space, or the list call failed
\* and was logged), only the other space, or both; T is the type the Chat API
\* reports for the space ("" when it reports none).
SpaceTypes == {"DIRECT_MESSAGE", "SPACE", ""}

Listing(T) ==
    <<[name |-> SpaceB, type |-> "DIRECT_MESSAGE"], [name |-> SpaceA, type |-> T]>>

SpaceListings ==
    {<<>>, <<[name |-> SpaceB, type |-> "DIRECT_MESSAGE"]>>}
        \cup {Listing(T) : T \in SpaceTypes}

\* space.get("type") of the listed space with this name, as the callers that
\* pass space_type read it; None when the space is not listed.
ReportedType(spaces, space_name) ==
    IF \E i \in 1..Len(spaces) : spaces[i].name = space_name
    THEN CHOOSE t \in {spaces[i].type : i \in {j \in 1..Len(spaces) :
                                                spaces[j].name = space_name}} : TRUE
    ELSE None

\* A faulty variant: the type of the first listed space, whatever its name.
get_space_type_first(spaces, space_name) ==
    IF Len(spaces) > 0 THEN spaces[1].type ELSE None

\* for s in fetch_chat_spaces(creds): if s.get("name") == space_name: return
\* s.get("type", ""); return None
get_space_type(spaces, space_name) ==
    IF \E i \in 1..Len(spaces) : spaces[i].name = space_name
    THEN spaces[CHOOSE i \in 1..Len(spaces) :
                    /\ spaces[i].name = space_name
                    /\ \A j \in 1..(i - 1) : spaces[j].name # space_name].type
    ELSE None

\* The messages the Chat API may hold, by creator and text (fetch_chat_messages
\* maps a missing field to ""): the user's own by account id, the user's own
\* by e-mail, the app's, another person's, another person's without text, and
\* one without creator.
MsgKinds ==
    {[creator_name |-> "users/g_me", creator_email |-> "", text |-> "mine"],
     [creator_name |-> "", creator_email |-> "a@x.co", text |-> "mine too"],
     [creator_name |-> "users/app", creator_email |-> "", text |-> "bot"],
     [creator_name |-> "users/g_other", creator_email |-> "o@y.co", text |-> "hello"],
     [creator_name |-> "users/g_other", creator_email |-> "", text |-> ""],
     [creator_name |-> "", creator_email |-> "", text |-> "anon"]}

\* The n-th message of a list: its resource name and its thread.
Msg(kind, n) ==
    [name |-> "m" \o Digit[n], text |-> kind.text, creator_name |-> kind.creator_name,
     creator_email |-> kind.creator_email,
     reply_parent |-> IF n = 1 THEN SpaceA ELSE SpaceA \o "/threads/" \o Digit[n]]

MsgLists ==
    UNION {{[i \in 1..n |-> Msg(ks[i], i)] : ks \in [1..n -> MsgKinds]} : n \in 0..MaxMsgs}

_is_own(m, gaia_id, user_email_lower) ==
    \/ (Truthy(gaia_id) /\ m.creator_name = "users/" \o gaia_id)
    \/ (user_email_lower # "" /\ Lower(m.creator_email) = user_email_lower)
    \/ m.creator_name = "users/app"

\* [m for m in chat if not _is_own(m)]
Eligible(msgs, gaia_id, user_email_lower) ==
    SelectSeq(msgs, LAMBDA m : ~_is_own(m, gaia_id, user_email_lower))

NoChatResult == [kind |-> "none", replies |-> <<>>, skipped |-> ""]

Skipped(why) == [kind |-> "skipped", replies |-> <<>>, skipped |-> why]

ChatParked ==
    [pc |-> "parked", dm_only |-> TRUE, space_type |-> None, spaces |-> <<>>,
     svc |-> "ok", user_id |-> "", reply_to_latest |-> 1, skip_empty |-> TRUE,
     msgs |-> <<>>, gaia |-> None, did_fetch |-> FALSE, fetched |-> <<>>,
     gaia_id |-> None, todo |-> <<>>, idx |-> 1, result |-> NoChatResult,
     agent_calls |-> <<>>, posts |-> <<>>]

ChatPark == chat = ChatParked

\* The arguments of one call and the answers of the collaborators. A caller
\* that passes space_type passes the type it read from the space list; svc is
\* whether get_chat_service (the credential refresh in it) succeeds for this
\* credential; gaia is what the userinfo call answers (None when it fails).
ChatInit ==
    \E dm \in BOOLEAN, sp \in SpaceListings, given \in BOOLEAN, svc \in {"ok", "raise"},
       uid \in {"A@X.CO", ""}, n \in 0..MaxReply, se \in BOOLEAN, ms \in MsgLists,
       g \in {"g_me", None} :
        /\ given => ReportedType(sp, SpaceA) # None
        /\ chat = [ChatParked EXCEPT
                      !.pc = "start", !.dm_only = dm, !.spaces = sp,
                      !.space_type = IF given THEN ReportedType(sp, SpaceA) ELSE None,
                      !.svc = svc, !.user_id = uid, !.reply_to_latest = n,
                      !.skip_empty = se, !.msgs = ms, !.gaia = g]

\* run_chat_auto_reply up to the reply loop: the DM restriction, the fetch,
\* the own-last-message guard and the choice of the messages to reply to.
ChatStart ==
    /\ chat.pc = "start"
    /\ LET lookupNeeded == chat.dm_only /\ ~Truthy(chat.space_type)
           st == IF Truthy(chat.space_type) THEN chat.space_type
                 ELSE get_space_type(chat.spaces, SpaceA)
           fetched == Take(chat.msgs, chat.reply_to_latest + PageExtra)
           user_email_lower == Lower(chat.user_id)
           eligible == Eligible(fetched, chat.gaia, user_email_lower)
           todo == Take(eligible, chat.reply_to_latest)
           raised == [chat EXCEPT !.pc = "done", !.result.kind = "raised"]
           got == [chat EXCEPT !.did_fetch = TRUE, !.fetched = fetched,
                               !.gaia_id = chat.gaia]
       IN chat' =
           IF lookupNeeded /\ chat.svc = "raise" THEN raised
           ELSE IF chat.dm_only /\ st # "DIRECT_MESSAGE"
           THEN [chat EXCEPT !.pc = "done",
                    !.result = Skipped("Only one-to-one (DM) chats are supported")]
           ELSE IF chat.svc = "raise" THEN raised
           ELSE IF Len(fetched) > 0 /\ _is_own(fetched[1], chat.gaia, user_email_lower)
           THEN [got EXCEPT !.pc = "done", !.result = Skipped("Last message is your own")]
           ELSE IF Len(eligible) = 0
           THEN [got EXCEPT !.pc = "done",
                    !.result = Skipped("No messages from others to reply to")]
           ELSE IF Len(todo) = 0
           THEN [got EXCEPT !.pc = "done", !.result.kind = "replies"]
           ELSE [got EXCEPT !.pc = "loop", !.todo = todo, !.idx = 1,
                            !.result.kind = "replies"]
    /\ UNCHANGED <<keyVars, tokVars, autoVars, storeVars, schedVars, settingsVars, namesVars, convVars, depsVars, xchgVars, dirVars, passVars, raceVars>>

\* One turn of "for msg in eligible[:reply_to_latest]": the agent answers
\* with a text, with an empty text, or the call raises; the post succeeds or
\* fails (post_chat_message returns None).
ChatReplyOne ==
    /\ chat.pc = "loop"
    /\ LET msg == chat.todo[chat.idx]
           last == chat.idx = Len(chat.todo)
           next == [chat EXCEPT !.idx = @ + 1, !.pc = IF last THEN "done" ELSE "loop"]
       IN IF chat.skip_empty /\ msg.text = ""
          THEN chat' = next
          ELSE \E agent \in {"reply", "", "raise"}, posted \in BOOLEAN :
                  chat' =
                    IF agent = "raise"
                    THEN [chat EXCEPT !.pc = "done", !.result.kind = "raised",
                                      !.agent_calls = Append(@, msg.name)]
                    ELSE IF agent = ""
                    THEN [next EXCEPT
                            !.agent_calls = Append(@, msg.name),
                            !.result.replies = Append(@,
                                [message |-> msg.name, reply |-> None,
                                 error |-> "Empty agent response", posted |-> FALSE])]
                    ELSE [next EXCEPT
                            !.agent_calls = Append(@, msg.name),
                            !.posts = Append(@, [parent |-> msg.reply_parent,
                                                 text |-> agent]),
                            !.result.replies = Append(@,
                                [message |-> msg.name, reply |-> agent,
                                 error |-> "", posted |-> posted])]
    /\ UNCHANGED <<keyVars, tokVars, autoVars, storeVars, schedVars, settingsVars, namesVars, convVars, depsVars, xchgVars, dirVars, passVars, raceVars>>

ChatNext ==
    \/ ChatStart
    \/ ChatReplyOne

(***************************************************************************)
(* run_all_workflows_for_user (services/automation.py)                     *)
(***************************************************************************)

\* The longest list of spaces fetch_chat_spaces answers with.
MaxSpaces == 2

\* chat_spaces_limit: int = 10
ChatSpacesLimit == 10

Categories == {"smart_inbox", "document_intelligence", "chat_auto_reply"}

\* The space lists of the model: each space is a DM or a named space.
AutoSpaceLists ==
    UNION {{[i \in 1..n |-> [name |-> "spaces/" \o Digit[i], type |-> ts[i]]] :
                ts \in [1..n -> {"DIRECT_MESSAGE", "SPACE"}]} : n \in 0..MaxSpaces}

\* [s for s in all_spaces if s.get("type") == "DIRECT_MESSAGE"]
DmSpaces(all_spaces) == SelectSeq(all_spaces, LAMBDA sp : sp.type = "DIRECT_MESSAGE")

NoWorkflows == [c \in {} |-> [status |-> "", error |-> "", spaces |-> <<>>]]

AutoParked ==
    [pc |-> "parked",
     include |-> [smart_inbox |-> FALSE, document_intelligence |-> FALSE,
                  chat_auto_reply |-> FALSE],
     does |-> [smart_inbox |-> "ok", document_intelligence |-> "ok"],
     fetch_spaces |-> "ok", all_spaces |-> <<>>, space_does |-> <<>>,
     chat_spaces_limit |-> ChatSpacesLimit,
     workflows |-> NoWorkflows, errors |-> <<>>, calls |-> <<>>, raised |-> FALSE]

AutoPark == auto = AutoParked

\* The arguments of one call and what the collaborators do: each orchestrator
\* call returns or raises, fetch_chat_spaces returns a list or raises, and
\* run_chat_auto_reply on each space returns replies, returns a skipped
\* result or raises.
AutoInit ==
    \E si \in BOOLEAN, di \in BOOLEAN, car \in BOOLEAN,
       dsi \in {"ok", "raise"}, ddi \in {"ok", "raise"},
       fs \in {"ok", "raise"}, sp \in AutoSpaceLists :
        \E sd \in [1..Len(sp) -> {"replies", "skipped", "raise"}] :
            /\ fs = "raise" => sp = <<>>
            /\ auto = [AutoParked EXCEPT
                          !.pc = "smart_inbox",
                          !.include = [smart_inbox |-> si, document_intelligence |-> di,
                                       chat_auto_reply |-> car],
                          !.does = [smart_inbox |-> dsi, document_intelligence |-> ddi],
                          !.fetch_spaces = fs, !.all_spaces = sp, !.space_does = sd]

\* results["workflows"][name] = {"status": "ok", ...}
WorkflowOk(a, name, spaces) ==
    [a EXCEPT !.workflows =
        DictSet(@, name, [status |-> "ok", error |-> "", spaces |-> spaces])]

\* results["workflows"][name] = {"status": "error", "error": str(e)};
\* results["errors"].append(f"{name}: {e}")
WorkflowError(a, name) ==
    [a EXCEPT !.workflows =
                  DictSet(@, name, [status |-> "error", error |-> "e", spaces |-> <<>>]),
              !.errors = Append(@, [workflow |-> name, error |-> "e"])]

\* One of the first two categories: if included, the orchestrator call in
\* its own try/except.
RunCategory(name, nextpc) ==
    LET called == [auto EXCEPT !.pc = nextpc, !.calls = Append(@, name)]
    IN auto' =
        IF ~auto.include[name] THEN [auto EXCEPT !.pc = nextpc]
        ELSE IF auto.does[name] = "raise" THEN WorkflowError(called, name)
        ELSE WorkflowOk(called, name, <<>>)

\* 1. Smart Inbox
RunSmartInbox ==
    /\ auto.pc = "smart_inbox"
    /\ RunCategory("smart_inbox", "document_intelligence")
    /\ UNCHANGED <<keyVars, tokVars, chatVars, storeVars, schedVars, settingsVars, namesVars, convVars, depsVars, xchgVars, dirVars, passVars, raceVars>>

\* A faulty variant: no try/except around the orchestrator call.
RunDocumentIntelligence_unguarded ==
    /\ auto.pc = "document_intelligence"
    /\ auto' =
        IF ~auto.include.document_intelligence
        THEN [auto EXCEPT !.pc = "chat_auto_reply"]
        ELSE IF auto.does.document_intelligence = "raise"
        THEN [auto EXCEPT !.pc = "done", !.raised = TRUE,
                          !.calls = Append(@, "document_intelligence")]
        ELSE WorkflowOk([auto EXCEPT !.pc = "chat_auto_reply",
                                     !.calls = Append(@, "document_intelligence")],
                        "document_intelligence", <<>>)
    /\ UNCHANGED <<keyVars, tokVars, chatVars, storeVars, schedVars, settingsVars, namesVars, convVars, depsVars, xchgVars, dirVars, passVars, raceVars>>

\* 2. Document Intelligence
RunDocumentIntelligence ==
    /\ auto.pc = "document_intelligence"
    /\ RunCategory("document_intelligence", "chat_auto_reply")
    /\ UNCHANGED <<keyVars, tokVars, chatVars, storeVars, schedVars, settingsVars, namesVars, convVars, depsVars, xchgVars, dirVars, passVars, raceVars>>

\* chat_results after the loop over spaces[:chat_spaces_limit]: one entry per
\* space, with the replies or with the error of that space.
ChatResults(spaces, space_does, all_spaces) ==
    [i \in 1..Len(spaces) |->
        LET k == CHOOSE j \in 1..Len(all_spaces) : all_spaces[j].name = spaces[i].name
        IN IF space_does[k] = "raise"
           THEN [space |-> spaces[i].name, replies |-> "", error |-> "e"]
           ELSE [space |-> spaces[i].name, replies |-> space_does[k], error |-> ""]]

\* 3. Chat Auto-Reply (one-to-one DMs only), and the return of the results
RunChatAutoReply ==
    /\ auto.pc = "chat_auto_reply"
    /\ LET spaces == Take(DmSpaces(auto.all_spaces), auto.chat_spaces_limit)
           fetched == [auto EXCEPT !.pc = "done", !.calls = Append(@, "chat_auto_reply")]
           ran == [fetched EXCEPT !.calls =
                      @ \o [i \in 1..Len(spaces) |-> spaces[i].name]]
       IN auto' =
           IF ~auto.include.chat_auto_reply THEN [auto EXCEPT !.pc = "done"]
           ELSE IF auto.fetch_spaces = "raise"
           THEN WorkflowError(fetched, "chat_auto_reply")
           ELSE WorkflowOk(ran, "chat_auto_reply",
                           ChatResults(spaces, auto.space_does, auto.all_spaces))
    /\ UNCHANGED <<keyVars, tokVars, chatVars, storeVars, schedVars, settingsVars, namesVars, convVars, depsVars, xchgVars, dirVars, passVars, raceVars>>

AutoNext ==
    \/ RunSmartInbox
    \/ RunDocumentIntelligence
    \/ RunChatAutoReply

(***************************************************************************)
(* CredentialStore (storage.py, with the conversions of google_oauth.py)   *)
(***************************************************************************)

\* The number of storage calls in one behaviour.
MaxOps == 2

\* A datetime as JSON text: isoformat() with its zone suffix ("" for a naive
\* reading); set = FALSE is a missing or null "expiry".
NoIso == [set |-> FALSE, wall |-> 0, tz |-> ""]

\* e.isoformat() of a naive datetime
isoformat(e) == [set |-> TRUE, wall |-> e.wall, tz |-> ""]

\* data["expiry"].replace("Z", "+00:00")
replace_Z(s) == IF s.tz = "Z" THEN [s EXCEPT !.tz = "+00:00"] ELSE s

\* datetime.fromisoformat on the texts above
fromisoformat(s) == IF s.tz = "+00:00" THEN Aware(s.wall, 0) ELSE Naive(s.wall)

\* A credentials dict (the JSON form of a credential).
CredDict(token, refresh_token, expiry) ==
    [token |-> token, refresh_token |-> refresh_token, token_uri |-> TOKEN_URI,
     client_id |-> "cid", client_secret |-> "csec", scopes |-> <<"s1">>,
     expiry |-> expiry]

NoDict ==
    [token |-> None, refresh_token |-> None, token_uri |-> None,
     client_id |-> None, client_secret |-> None, scopes |-> <<>>, expiry |-> NoIso]

credentials_to_dict(creds) ==
    [token |-> creds.token, refresh_token |-> creds.refresh_token,
     token_uri |-> creds.token_uri, client_id |-> creds.client_id,
     client_secret |-> creds.client_secret, scopes |-> creds.scopes,
     expiry |-> IF creds.expiry.set
                THEN LET e == IF creds.expiry.aware
                              THEN replace_tzinfo_none(astimezone_utc(creds.expiry))
                              ELSE creds.expiry
                     IN [isoformat(e) EXCEPT !.tz = "Z"]
                ELSE NoIso]

dict_to_credentials(data) ==
    [token |-> data.token, refresh_token |-> data.refresh_token,
     token_uri |-> data.token_uri, client_id |-> data.client_id,
     client_secret |-> data.client_secret, scopes |-> data.scopes,
     expiry |-> IF data.expiry.set
                THEN _normalize_expiry_to_naive_utc(fromisoformat(replace_Z(data.expiry)))
                ELSE NoExpiry]

\* A local JSON file: missing, present with a record, or present with
\* content that does not parse (a write that failed part-way).
NoFile == [exists |-> FALSE, valid |-> FALSE, data |-> NoDict]

File(data) == [exists |-> TRUE, valid |-> TRUE, data |-> data]

CorruptFile == [exists |-> TRUE, valid |-> FALSE, data |-> NoDict]

\* user_data.json in the user's Drive folder: the credentials and the
\* settings kept next to them; workflow_toggles is a dict over the names
\* that were written.
NoBlob ==
    [exists |-> FALSE, has_credentials |-> FALSE, credentials |-> NoDict,
     automation_enabled |-> None, has_toggles |-> FALSE,
     workflow_toggles |-> [k \in {} |-> TRUE],
     oshaani_api_key |-> None]

\* What the disk and Drive do during one call: open(path, "w") and the write
\* succeed or raise OSError; load_user_data_from_drive returns the blob,
\* returns None or raises; save_user_data_to_drive succeeds or not.
DiskKinds == {"ok", "open_fails", "write_fails"}

DriveLoadKinds == {"ok", "none", "raise"}

DriveSaveKinds == {"ok", "fail"}

\* The token endpoint outcomes drawn for the storage calls.
StoreEpOutcomes == {ep \in EpOutcomes : ep.life = 1}

Envs ==
    [disk : DiskKinds, drive_load : DriveLoadKinds, drive_save : DriveSaveKinds,
     ep : StoreEpOutcomes]

\* load_user_data_from_drive(creds, user_id) or {}
ExistingBlob(d, user_id, env) ==
    IF env.drive_load = "ok" /\ d.drive[user_id].exists THEN d.drive[user_id] ELSE NoBlob

\* The Drive sync of save_credentials: the blob read, the credentials merged
\* into it and the result written back; any failure leaves the blob as it was.
DriveSync(d, user_id, credentials_dict, env) ==
    IF env.drive_load = "raise" \/ env.drive_save = "fail" THEN d
    ELSE [d EXCEPT !.drive[user_id] =
             [ExistingBlob(d, user_id, env) EXCEPT
                 !.exists = TRUE, !.has_credentials = TRUE,
                 !.credentials = credentials_dict]]

\* A faulty variant: the scopes are not written.
bootstrap_record_without_scopes(credentials_dict) ==
    LET pair == Truthy(credentials_dict.token) /\ credentials_dict.expiry.set
    IN [credentials_dict EXCEPT
           !.scopes = <<>>,
           !.token = IF pair THEN @ ELSE None,
           !.expiry = IF pair THEN @ ELSE NoIso]

\* A faulty variant: the token is written whenever there is one.
bootstrap_record_token_alone(credentials_dict) ==
    [credentials_dict EXCEPT
        !.token = IF Truthy(@) THEN @ ELSE None]

\* The bootstrap record save_credentials writes: token and expiry only when
\* both are truthy.
bootstrap_record(credentials_dict) ==
    LET pair == Truthy(credentials_dict.token) /\ credentials_dict.expiry.set
    IN [credentials_dict EXCEPT
           !.token = IF pair THEN @ ELSE None,
           !.expiry = IF pair THEN @ ELSE NoIso]

\* The result of a storage call: the store after it, the value returned
\* (absent = None) or the exception raised, the branch taken and the number
\* of calls made to the token endpoint.
Out(d, ret, absent, raised, path, calls) ==
    [store |-> d, ret |-> ret, absent |-> absent, raised |-> raised,
     path |-> path, endpoint_calls |-> calls]

\* A faulty variant: the Drive sync is not wrapped in try/except.
save_credentials_drive_unguarded(d, user_id, credentials_dict, env) ==
    LET written == [d EXCEPT !.bootstrap[user_id] = File(bootstrap_record(credentials_dict))]
    IN IF env.disk = "open_fails"
       THEN Out(d, NoDict, TRUE, TRUE, "RuntimeError", 0)
       ELSE IF env.disk = "write_fails"
       THEN Out([d EXCEPT !.bootstrap[user_id] = CorruptFile],
                NoDict, TRUE, TRUE, "RuntimeError", 0)
       ELSE IF env.drive_load = "raise"
       THEN Out(written, NoDict, TRUE, TRUE, "drive", 0)
       ELSE Out(DriveSync(written, user_id, credentials_dict, env),
                NoDict, TRUE, FALSE, "saved", 0)

save_credentials(d, user_id, credentials_dict, env) ==
    LET written == [d EXCEPT !.bootstrap[user_id] = File(bootstrap_record(credentials_dict))]
    IN IF env.disk = "open_fails"
       THEN Out(d, NoDict, TRUE, TRUE, "RuntimeError", 0)
       ELSE IF env.disk = "write_fails"
       THEN Out([d EXCEPT !.bootstrap[user_id] = CorruptFile],
                NoDict, TRUE, TRUE, "RuntimeError", 0)
       ELSE Out(DriveSync(written, user_id, credentials_dict, env),
                NoDict, TRUE, FALSE, "saved", 0)

\* A faulty variant: the automation flag file of the user goes as well.
delete_credentials_all_local(d, user_id) ==
    IF d.bootstrap[user_id].exists
    THEN Out([d EXCEPT !.bootstrap[user_id] = NoFile,
                       !.automation_local[user_id] =
                           [exists |-> FALSE, valid |-> FALSE, enabled |-> TRUE]],
             NoDict, FALSE, FALSE, "delete", 0)
    ELSE Out(d, NoDict, TRUE, FALSE, "delete", 0)

\* A faulty variant: nothing is removed.
delete_credentials_keep(d, user_id) ==
    Out(d, NoDict, ~d.bootstrap[user_id].exists, FALSE, "delete", 0)

\* path.unlink() when the bootstrap exists; absent stands for returning False.
delete_credentials(d, user_id) ==
    IF d.bootstrap[user_id].exists
    THEN Out([d EXCEPT !.bootstrap[user_id] = NoFile], NoDict, FALSE, FALSE, "delete", 0)
    ELSE Out(d, NoDict, TRUE, FALSE, "delete", 0)

\* The legacy branch of load_credentials, s being the result of saving the
\* file's content in the new layout: the file is unlinked and its content
\* returned, unless the save raised.
LoadLegacy(d, user_id, s) ==
    IF s.raised
    THEN Out(s.store, NoDict, TRUE, TRUE, "RuntimeError", 0)
    ELSE Out([s.store EXCEPT !.legacy[user_id] = NoFile],
             d.legacy[user_id].data, FALSE, FALSE, "legacy", 0)

\* A faulty variant: the credential of the Drive blob is returned whenever
\* the blob holds one.
LoadBootstrap_drive_preferred(d, user_id, env, r) ==
    LET bootstrap == d.bootstrap[user_id].data
        creds == r.creds
        rewrite == Truthy(creds.token) /\ Truthy(creds.refresh_token)
        rewritten ==
            [bootstrap EXCEPT
                !.token = creds.token,
                !.expiry = IF creds.expiry.set THEN isoformat(creds.expiry) ELSE @,
                !.refresh_token = creds.refresh_token]
        d2 == IF rewrite THEN [d EXCEPT !.bootstrap[user_id] = File(rewritten)] ELSE d
        blob == d.drive[user_id]
    IN IF r.raised
       THEN IF r.err \in {"scope", "invalid_grant"}
            THEN Out(delete_credentials(d, user_id).store,
                     NoDict, TRUE, FALSE, "dead", r.endpoint_calls)
            ELSE Out(d, NoDict, TRUE, TRUE, "refresh_error", r.endpoint_calls)
       ELSE IF rewrite /\ env.disk = "open_fails"
       THEN Out(d, NoDict, TRUE, TRUE, "OSError", r.endpoint_calls)
       ELSE IF rewrite /\ env.disk = "write_fails"
       THEN Out([d EXCEPT !.bootstrap[user_id] = CorruptFile],
                NoDict, TRUE, TRUE, "OSError", r.endpoint_calls)
       ELSE IF /\ env.drive_load = "ok"
               /\ blob.exists /\ blob.has_credentials
       THEN Out(d2, blob.credentials, FALSE, FALSE, "drive", r.endpoint_calls)
       ELSE Out(d2, credentials_to_dict(creds), FALSE, FALSE, "bootstrap",
                r.endpoint_calls)

\* The bootstrap branch of load_credentials, r being the result of
\* refresh_credentials_if_needed on the bootstrap's credential.
LoadBootstrap(d, user_id, env, r) ==
    LET bootstrap == d.bootstrap[user_id].data
        creds == r.creds
        rewrite == Truthy(creds.token) /\ Truthy(creds.refresh_token)
        rewritten ==
            [bootstrap EXCEPT
                !.token = creds.token,
                !.expiry = IF creds.expiry.set THEN isoformat(creds.expiry) ELSE @,
                !.refresh_token = creds.refresh_token]
        d2 == IF rewrite THEN [d EXCEPT !.bootstrap[user_id] = File(rewritten)] ELSE d
        blob == d.drive[user_id]
    IN IF r.raised
       THEN IF r.err \in {"scope", "invalid_grant"}
            THEN Out(delete_credentials(d, user_id).store,
                     NoDict, TRUE, FALSE, "dead", r.endpoint_calls)
            ELSE Out(d, NoDict, TRUE, TRUE, "refresh_error", r.endpoint_calls)
       ELSE IF rewrite /\ env.disk = "open_fails"
       THEN Out(d, NoDict, TRUE, TRUE, "OSError", r.endpoint_calls)
       ELSE IF rewrite /\ env.disk = "write_fails"
       THEN Out([d EXCEPT !.bootstrap[user_id] = CorruptFile],
                NoDict, TRUE, TRUE, "OSError", r.endpoint_calls)
       ELSE IF /\ ~Truthy(creds.refresh_token)
               /\ env.drive_load = "ok"
               /\ blob.exists /\ blob.has_credentials
       THEN Out(d2, blob.credentials, FALSE, FALSE, "drive", r.endpoint_calls)
       ELSE Out(d2, credentials_to_dict(creds), FALSE, FALSE, "bootstrap",
                r.endpoint_calls)

\* load_credentials at clock reading now
load_credentials(d, user_id, now, env) ==
    IF d.legacy[user_id].exists
    THEN LoadLegacy(d, user_id,
                    save_credentials(d, user_id, d.legacy[user_id].data, env))
    ELSE IF ~d.bootstrap[user_id].exists
    THEN Out(d, NoDict, TRUE, FALSE, "no_bootstrap", 0)
    ELSE IF ~d.bootstrap[user_id].valid
    THEN Out(d, NoDict, TRUE, FALSE, "unreadable", 0)
    ELSE LoadBootstrap(d, user_id, env,
                       refresh_credentials_if_needed(
                           dict_to_credentials(d.bootstrap[user_id].data), now, env.ep))

\* The credentials dicts callers save: with or without a refresh token, with
\* the token and expiry pair, with the token alone, or with neither.
SavedDicts ==
    {CredDict("t0", "r1", [set |-> TRUE, wall |-> 1, tz |-> "Z"]),
     CredDict("t0", None, [set |-> TRUE, wall |-> 1, tz |-> "Z"]),
     CredDict("t0", "r1", NoIso),
     CredDict(None, "r1", NoIso)}

\* The content of a legacy creds_{user}.json, and of a Drive blob written at
\* an earlier login.
LegacyDict == CredDict(None, "r_old", NoIso)

DriveDict == CredDict("t0", "r_drv", [set |-> TRUE, wall |-> 0, tz |-> "Z"])

\* automation_{user}.json: missing, present with {"enabled": ...}, or present
\* with content that does not parse.
NoFlag == [exists |-> FALSE, valid |-> FALSE, enabled |-> TRUE]

NoSettings == [exists |-> FALSE, valid |-> FALSE, oshaani_api_key |-> None]

\* What earlier runs left for one user: nothing; a legacy credentials file;
\* a login with the automation flag switched off and a Drive blob.
Profiles == {"new", "legacy", "settled"}

\* For the scheduler, also: a login with workflow toggles in the Drive blob
\* and a legacy settings file; a login whose Drive blob has automation off.
SchedProfiles == {"new", "settled", "active", "remote_off"}

\* The clock readings of the storage calls: before and after the expiry of
\* the saved access tokens.
StoreClock == {0, 2}

ProfileFiles(p) ==
    [bootstrap |->
        IF p \in {"settled", "active", "remote_off", "garbled"}
        THEN File(bootstrap_record(CredDict("t0", "r1", [set |-> TRUE, wall |-> 1, tz |-> "Z"])))
        ELSE NoFile,
     legacy |-> IF p = "legacy" THEN File(LegacyDict) ELSE NoFile,
     automation_local |->
        IF p = "settled" THEN [exists |-> TRUE, valid |-> TRUE, enabled |-> FALSE]
        ELSE NoFlag,
     user_settings |->
        IF p = "active" THEN [exists |-> TRUE, valid |-> TRUE, oshaani_api_key |-> "k_old"]
        ELSE IF p = "garbled" THEN [NoSettings EXCEPT !.exists = TRUE]
        ELSE NoSettings,
     drive |->
        IF p = "settled"
        THEN [NoBlob EXCEPT !.exists = TRUE, !.has_credentials = TRUE,
                            !.credentials = DriveDict, !.automation_enabled = "true"]
        ELSE IF p = "active"
        THEN [NoBlob EXCEPT !.exists = TRUE, !.has_credentials = TRUE,
                            !.credentials = DriveDict, !.has_toggles = TRUE,
                            !.workflow_toggles = [document_intelligence |-> FALSE]]
        ELSE IF p = "remote_off"
        THEN [NoBlob EXCEPT !.exists = TRUE, !.has_credentials = TRUE,
                            !.credentials = DriveDict, !.automation_enabled = "false"]
        ELSE NoBlob]

StoreOf(prof) ==
    [bootstrap |-> [u \in Users |-> ProfileFiles(prof[u]).bootstrap],
     legacy |-> [u \in Users |-> ProfileFiles(prof[u]).legacy],
     automation_local |-> [u \in Users |-> ProfileFiles(prof[u]).automation_local],
     user_settings |-> [u \in Users |-> ProfileFiles(prof[u]).user_settings],
     drive |-> [u \in Users |-> ProfileFiles(prof[u]).drive]]

CalmEnv ==
    [disk |-> "ok", drive_load |-> "ok", drive_save |-> "ok",
     ep |-> [kind |-> "ok", life |-> 1]]

NoSaved == [valid |-> FALSE, dict |-> NoDict]

NoLast ==
    [op |-> "none", user |-> None, dict |-> NoDict, env |-> CalmEnv,
     after_save |-> NoSaved, had_legacy |-> FALSE, was_dead |-> FALSE,
     ret |-> NoDict, absent |-> TRUE, raised |-> FALSE, path |-> "",
     endpoint_calls |-> 0]

StoreParkedHist ==
    [steps |-> MaxOps, now |-> 0, last |-> NoLast,
     saved |-> [u \in Users |-> NoSaved], dead |-> [u \in Users |-> FALSE]]

StorePark ==
    /\ store = StoreOf([u \in Users |-> "new"])
    /\ hist = StoreParkedHist

StoreInit ==
    \E prof \in [Users -> Profiles], n \in StoreClock :
        /\ store = StoreOf(prof)
        /\ hist = [StoreParkedHist EXCEPT !.steps = 0, !.now = n]

\* The environments that differ in what a save_credentials call does.
SaveEnvs ==
    {env \in Envs :
        /\ env.ep = CalmEnv.ep
        /\ env.disk # "ok" => env.drive_load = "ok"
        /\ (env.disk # "ok" \/ env.drive_load = "raise") => env.drive_save = "ok"
        /\ env.drive_save = "fail" => env.drive_load = "ok"}

\* The environments that differ in what a load_credentials call does.
LoadEnvs(user_id) ==
    IF store.legacy[user_id].exists THEN SaveEnvs
    ELSE IF ~(store.bootstrap[user_id].exists /\ store.bootstrap[user_id].valid)
    THEN {CalmEnv}
    ELSE {env \in Envs : env.drive_save = "ok" /\ env.drive_load # "none"}

Record(op, user_id, dict, env, o) ==
    [hist EXCEPT
        !.steps = @ + 1,
        !.last = [op |-> op, user |-> user_id, dict |-> dict, env |-> env,
                  after_save |-> hist.saved[user_id],
                  had_legacy |-> store.legacy[user_id].exists,
                  was_dead |-> hist.dead[user_id],
                  ret |-> o.ret, absent |-> o.absent, raised |-> o.raised,
                  path |-> o.path, endpoint_calls |-> o.endpoint_calls]]

SaveCredentials(user_id, credentials_dict, env) ==
    /\ hist.steps < MaxOps
    /\ \E o \in {save_credentials(store, user_id, credentials_dict, env)} :
          /\ store' = o.store
          /\ hist' = [Record("save", user_id, credentials_dict, env, o) EXCEPT
                         !.saved[user_id] =
                             IF o.raised THEN NoSaved
                             ELSE [valid |-> TRUE, dict |-> credentials_dict],
                         !.dead[user_id] = FALSE]
    /\ UNCHANGED <<keyVars, tokVars, chatVars, autoVars, schedVars, settingsVars, namesVars, convVars, depsVars, xchgVars, dirVars, passVars, raceVars>>

LoadCredentials(user_id, env) ==
    /\ hist.steps < MaxOps
    /\ env \in LoadEnvs(user_id)
    /\ \E o \in {load_credentials(store, user_id, hist.now, env)} :
          /\ store' = o.store
          /\ hist' = [Record("load", user_id, NoDict, CalmEnv, o) EXCEPT
                         !.saved[user_id] = NoSaved,
                         !.dead[user_id] = @ \/ o.path = "dead"]
    /\ UNCHANGED <<keyVars, tokVars, chatVars, autoVars, schedVars, settingsVars, namesVars, convVars, depsVars, xchgVars, dirVars, passVars, raceVars>>

DeleteCredentials(user_id) ==
    /\ hist.steps < MaxOps
    /\ \E o \in {delete_credentials(store, user_id)} :
          /\ store' = o.store
          /\ hist' = [Record("delete", user_id, NoDict, CalmEnv, o) EXCEPT
                         !.saved[user_id] = NoSaved]
    /\ UNCHANGED <<keyVars, tokVars, chatVars, autoVars, schedVars, settingsVars, namesVars, convVars, depsVars, xchgVars, dirVars, passVars, raceVars>>

StoreNext ==
    \/ \E u \in Users, cd \in SavedDicts, env \in SaveEnvs : SaveCredentials(u, cd, env)
    \/ \E u \in Users, env \in Envs : LoadCredentials(u, env)
    \/ \E u \in Users : DeleteCredentials(u)

(***************************************************************************)
(* Settings readers (storage.py) and the scheduler pass (main.py)          *)
(***************************************************************************)

\* The result of a settings reader: the store after it and the value
\* returned, or the exception raised.
Val(d, value, raised) == [store |-> d, value |-> value, raised |-> raised]

_parse_enabled_value(val) ==
    IF val = None THEN TRUE ELSE val \in {"true", "1", "on", "yes"}

\* load_user_data_from_drive as the readers use it: the blob, or nothing
\* when there is none, when the load returns None and when it raises.
DriveData(d, user_id, env) ==
    IF env.drive_load = "ok" /\ d.drive[user_id].exists
    THEN [found |-> TRUE, blob |-> d.drive[user_id]]
    ELSE [found |-> FALSE, blob |-> NoBlob]

\* The Drive branch of get_user_automation_enabled, l being the result of
\* load_credentials.
AutomationEnabledFrom(l, user_id, env) ==
    LET data == DriveData(l.store, user_id, env)
    IN IF l.raised THEN Val(l.store, TRUE, TRUE)
       ELSE IF l.absent THEN Val(l.store, TRUE, FALSE)
       ELSE IF ~data.found THEN Val(l.store, TRUE, FALSE)
       ELSE Val(l.store, _parse_enabled_value(data.blob.automation_enabled), FALSE)

get_user_automation_enabled(d, user_id, now, env) ==
    IF d.automation_local[user_id].exists /\ d.automation_local[user_id].valid
    THEN Val(d, d.automation_local[user_id].enabled, FALSE)
    ELSE AutomationEnabledFrom(load_credentials(d, user_id, now, env), user_id, env)

DEFAULT_WORKFLOW_TOGGLES ==
    [smart_inbox |-> TRUE, document_intelligence |-> TRUE, chat_auto_reply |-> TRUE,
     first_email_draft |-> TRUE, chat_spaces |-> TRUE]

\* toggles = dict(DEFAULT_WORKFLOW_TOGGLES), then every known name of the
\* stored dict overrides its default.
MergeToggles(stored) ==
    [k \in DOMAIN DEFAULT_WORKFLOW_TOGGLES |->
        IF k \in DOMAIN stored THEN stored[k] ELSE DEFAULT_WORKFLOW_TOGGLES[k]]

\* get_user_workflow_toggles after its load_credentials call returned l.
TogglesFrom(l, user_id, env) ==
    LET data == DriveData(l.store, user_id, env)
    IN IF l.raised THEN Val(l.store, DEFAULT_WORKFLOW_TOGGLES, TRUE)
       ELSE IF l.absent THEN Val(l.store, DEFAULT_WORKFLOW_TOGGLES, FALSE)
       ELSE IF ~data.found \/ ~data.blob.has_toggles
       THEN Val(l.store, DEFAULT_WORKFLOW_TOGGLES, FALSE)
       ELSE Val(l.store, MergeToggles(data.blob.workflow_toggles), FALSE)

get_user_workflow_toggles(d, user_id, now, env) ==
    TogglesFrom(load_credentials(d, user_id, now, env), user_id, env)

\* The migration of a legacy settings file holding a key, l being the result
\* of load_credentials: the key is copied into the Drive blob when the user
\* has credentials and the file is unlinked; an exception is swallowed, and
\* one raised by load_credentials leaves the file in place.
MigrateWith(local_key, user_id, env, l) ==
    LET synced ==
            IF env.drive_load = "raise" \/ env.drive_save = "fail" THEN l.store
            ELSE [l.store EXCEPT !.drive[user_id] =
                     [ExistingBlob(l.store, user_id, env) EXCEPT
                         !.exists = TRUE, !.oshaani_api_key = local_key]]
    IN IF l.raised THEN l.store
       ELSE IF l.absent THEN [l.store EXCEPT !.user_settings[user_id] = NoSettings]
       ELSE [synced EXCEPT !.user_settings[user_id] = NoSettings]

\* The first block of get_user_oshaani_key; the exception of a file that
\* cannot be parsed is swallowed before the unlink.
MigrateSettings(d, user_id, now, env) ==
    IF ~d.user_settings[user_id].exists THEN d
    ELSE IF ~d.user_settings[user_id].valid THEN d
    ELSE IF ~Truthy(d.user_settings[user_id].oshaani_api_key)
    THEN [d EXCEPT !.user_settings[user_id] = NoSettings]
    ELSE MigrateWith(d.user_settings[user_id].oshaani_api_key, user_id, env,
                     load_credentials(d, user_id, now, env))

\* get_user_oshaani_key after its second load_credentials call returned l.
KeyFrom(l, user_id, env) ==
    LET data == DriveData(l.store, user_id, env)
    IN IF l.raised THEN Val(l.store, None, TRUE)
       ELSE IF l.absent \/ ~data.found THEN Val(l.store, None, FALSE)
       ELSE Val(l.store,
                IF Truthy(data.blob.oshaani_api_key) THEN data.blob.oshaani_api_key
                ELSE None,
                FALSE)

get_user_oshaani_key(d, user_id, now, env) ==
    KeyFrom(load_credentials(MigrateSettings(d, user_id, now, env), user_id, now, env),
            user_id, env)

\* Strings as sequences of characters, for the functions that work on the
\* characters of a user id.
Chars(user_id) ==
    IF user_id = "a@x.co" THEN <<"a", "@", "x", ".", "c", "o">>
    ELSE <<"b", "@", "y", ".", "c", "o">>

RECURSIVE Join(_)
Join(cs) == IF cs = <<>> THEN "" ELSE cs[1] \o Join(Tail(cs))

\* str.replace(old, new): the occurrences of old, found from the left and
\* not overlapping, are replaced by new.
RECURSIVE replace(_, _, _)
replace(s, old, new) ==
    IF Len(s) < Len(old) THEN s
    ELSE IF SubSeq(s, 1, Len(old)) = old
    THEN new \o replace(SubSeq(s, Len(old) + 1, Len(s)), old, new)
    ELSE <<s[1]>> \o replace(Tail(s), old, new)

AtMark == <<"_", "a", "t", "_">>

DotMark == <<"_", "d", "o", "t", "_">>

\* user_id.replace("@", "_at_").replace(".", "_dot_")
_safe_filename(user_id) == replace(replace(user_id, <<"@">>, AtMark), <<".">>, DotMark)

\* part.replace("_at_", "@").replace("_dot_", ".") of list_users
DecodeFilename(part) == replace(replace(part, AtMark, <<"@">>), DotMark, <<".">>)

BOOTSTRAP_PREFIX == <<"b", "o", "o", "t", "s", "t", "r", "a", "p", "_">>

\* The stem of _bootstrap_path(user_id).
BootstrapStem(user_id) == BOOTSTRAP_PREFIX \o _safe_filename(user_id)

\* name[len(BOOTSTRAP_PREFIX):]
StripPrefix(name) == SubSeq(name, Len(BOOTSTRAP_PREFIX) + 1, Len(name))

\* The longest local part of the addresses drawn.
MaxLocal == 4

LocalAlphabet == {"a", "t", "d", "o", "_", "."}

\* The local parts: no dot at either end and no two dots in a row.
Locals ==
    {l \in UNION {[1..n -> LocalAlphabet] : n \in 1..MaxLocal} :
        /\ l[1] # "." /\ l[Len(l)] # "."
        /\ \A i \in 1..(Len(l) - 1) : ~(l[i] = "." /\ l[i + 1] = ".")}

\* The e-mail addresses save_credentials is called with as user ids.
EmailIds == {l \o <<"@", "x", ".", "c", "o">> : l \in Locals}

NamesParked == [pc |-> "parked", user_id |-> <<>>, files |-> {}, listed |-> {}]

NamesPark == names = NamesParked

\* An empty DATA_DIR and the address of the user who logs in.
NamesInit ==
    \E id \in EmailIds : names = [NamesParked EXCEPT !.pc = "start", !.user_id = id]

\* save_credentials(user_id, ...) creates the bootstrap file of the user.
SaveName ==
    /\ names.pc = "start"
    /\ names' = [names EXCEPT !.pc = "saved",
                              !.files = @ \cup {BootstrapStem(names.user_id)}]
    /\ UNCHANGED <<keyVars, tokVars, chatVars, autoVars, storeVars, schedVars, settingsVars, convVars, depsVars, xchgVars, dirVars, passVars, raceVars>>

\* delete_credentials(user_id) unlinks the bootstrap file of the user.
DeleteName ==
    /\ names.pc = "saved"
    /\ names' = [names EXCEPT !.pc = "deleted",
                              !.files = @ \ {BootstrapStem(names.user_id)}]
    /\ UNCHANGED <<keyVars, tokVars, chatVars, autoVars, storeVars, schedVars, settingsVars, convVars, depsVars, xchgVars, dirVars, passVars, raceVars>>

\* list_users() reads the user ids back from the names of the files.
ListName ==
    /\ names.pc \in {"saved", "deleted"}
    /\ names' = [names EXCEPT
                    !.pc = "listed",
                    !.listed = {DecodeFilename(StripPrefix(n)) : n \in names.files}]
    /\ UNCHANGED <<keyVars, tokVars, chatVars, autoVars, storeVars, schedVars, settingsVars, convVars, depsVars, xchgVars, dirVars, passVars, raceVars>>

NamesNext == SaveName \/ DeleteName \/ ListName

\* list_users(): the decoded names of the bootstrap files, in the order the
\* directory listing yields them.
list_users(d) ==
    LET found == {Join(DecodeFilename(StripPrefix(BootstrapStem(Chars(u))))) :
                     u \in {v \in Users : d.bootstrap[v].exists}}
    IN {us \in UNION {[1..n -> found] : n \in 0..Cardinality(found)} :
           /\ Len(us) = Cardinality(found)
           /\ \A i, j \in 1..Len(us) : i # j => us[i] # us[j]}

NoArgs ==
    [include_smart_inbox |-> FALSE, include_document_intelligence |-> FALSE,
     include_chat_auto_reply |-> FALSE, oshaani_api_key |-> None]

SchedParked ==
    [pc |-> "parked", AUTOMATION_ENABLED |-> FALSE,
     AUTOMATION_CHAT_AUTO_REPLY_ENABLED |-> FALSE, now |-> 0,
     users |-> <<>>, i |-> 1, stage |-> "",
     processed |-> 0, skipped |-> 0, failed |-> 0,
     toggles |-> DEFAULT_WORKFLOW_TOGGLES,
     outcome |-> [u \in Users |-> "none"],
     raised_in |-> [u \in Users |-> FALSE],
     automation_on |-> [u \in Users |-> FALSE],
     has_credentials |-> [u \in Users |-> FALSE],
     run_args |-> [u \in Users |-> NoArgs],
     aborted |-> FALSE]

SchedPark == sched = SchedParked

\* The configuration flags, the clock and the disk at the start of a pass.
SchedInit ==
    \E prof \in [Users -> SchedProfiles], n \in StoreClock,
       ae \in BOOLEAN, ce \in BOOLEAN :
        /\ store = StoreOf(prof)
        /\ hist = StoreParkedHist
        /\ sched = [SchedParked EXCEPT !.pc = "start", !.AUTOMATION_ENABLED = ae,
                                       !.AUTOMATION_CHAT_AUTO_REPLY_ENABLED = ce,
                                       !.now = n]

\* The user the loop is at.
CurrentUser == sched.users[sched.i]

\* for user_id in users: the loop moves to the next user, or ends.
NextUser(s) ==
    IF s.i + 1 > Len(s.users)
    THEN [s EXCEPT !.i = @ + 1, !.pc = "done", !.stage = ""]
    ELSE [s EXCEPT !.i = @ + 1, !.stage = "automation_on"]

\* A faulty variant: no try/except in the loop body, the exception ends the pass.
OnException_unguarded(s, user_id) ==
    [s EXCEPT !.raised_in[user_id] = TRUE, !.pc = "done", !.stage = "",
              !.aborted = TRUE]

\* except Exception as e: failed += 1
OnException(s, user_id) ==
    NextUser([s EXCEPT !.raised_in[user_id] = TRUE, !.failed = @ + 1,
                       !.outcome[user_id] = "failed"])

\* skipped += 1; continue
OnSkip(s, user_id) ==
    NextUser([s EXCEPT !.skipped = @ + 1, !.outcome[user_id] = "skipped"])

\* The start of the pass: the AUTOMATION_ENABLED check and list_users().
SchedStart ==
    /\ sched.pc = "start"
    /\ \E users \in list_users(store) :
          sched' = IF ~sched.AUTOMATION_ENABLED \/ users = <<>>
                   THEN [sched EXCEPT !.pc = "done"]
                   ELSE [sched EXCEPT !.pc = "loop", !.users = users, !.i = 1,
                                      !.stage = "automation_on"]
    /\ UNCHANGED <<keyVars, tokVars, chatVars, autoVars, storeVars, settingsVars, namesVars, convVars, depsVars, xchgVars, dirVars, passVars, raceVars>>

\* automation_on = get_user_automation_enabled(user_id)
SchedAutomationOn(env) ==
    /\ sched.pc = "loop" /\ sched.stage = "automation_on"
    /\ \E o \in {get_user_automation_enabled(store, CurrentUser, sched.now, env)} :
          /\ store' = o.store
          /\ sched' = IF o.raised THEN OnException(sched, CurrentUser)
                      ELSE IF ~o.value THEN OnSkip(sched, CurrentUser)
                      ELSE [sched EXCEPT !.automation_on[CurrentUser] = TRUE,
                                         !.stage = "load"]
    /\ UNCHANGED <<keyVars, tokVars, chatVars, autoVars, hist, settingsVars, namesVars, convVars, depsVars, xchgVars, dirVars, passVars, raceVars>>

\* cred_data = load_credentials(user_id)
SchedLoad(env) ==
    /\ sched.pc = "loop" /\ sched.stage = "load"
    /\ \E o \in {load_credentials(store, CurrentUser, sched.now, env)} :
          /\ store' = o.store
          /\ sched' = IF o.raised THEN OnException(sched, CurrentUser)
                      ELSE IF o.absent THEN OnSkip(sched, CurrentUser)
                      ELSE [sched EXCEPT !.has_credentials[CurrentUser] = TRUE,
                                         !.stage = "toggles"]
    /\ UNCHANGED <<keyVars, tokVars, chatVars, autoVars, hist, settingsVars, namesVars, convVars, depsVars, xchgVars, dirVars, passVars, raceVars>>

\* toggles = get_user_workflow_toggles(user_id)
SchedToggles(env) ==
    /\ sched.pc = "loop" /\ sched.stage = "toggles"
    /\ \E o \in {get_user_workflow_toggles(store, CurrentUser, sched.now, env)} :
          /\ store' = o.store
          /\ sched' = IF o.raised THEN OnException(sched, CurrentUser)
                      ELSE [sched EXCEPT !.toggles = o.value, !.stage = "key"]
    /\ UNCHANGED <<keyVars, tokVars, chatVars, autoVars, hist, settingsVars, namesVars, convVars, depsVars, xchgVars, dirVars, passVars, raceVars>>

\* user_key = get_user_oshaani_key(user_id)
SchedKey(env) ==
    /\ sched.pc = "loop" /\ sched.stage = "key"
    /\ \E o \in {get_user_oshaani_key(store, CurrentUser, sched.now, env)} :
          /\ store' = o.store
          /\ sched' =
               IF o.raised THEN OnException(sched, CurrentUser)
               ELSE [sched EXCEPT
                        !.stage = "run",
                        !.run_args[CurrentUser] =
                            [include_smart_inbox |-> sched.toggles.smart_inbox,
                             include_document_intelligence |->
                                 sched.toggles.document_intelligence,
                             include_chat_auto_reply |->
                                 sched.toggles.chat_auto_reply
                                     /\ sched.AUTOMATION_CHAT_AUTO_REPLY_ENABLED,
                             oshaani_api_key |-> o.value]]
    /\ UNCHANGED <<keyVars, tokVars, chatVars, autoVars, hist, settingsVars, namesVars, convVars, depsVars, xchgVars, dirVars, passVars, raceVars>>

\* result = run_all_workflows_for_user(...); processed += 1
SchedRun(does) ==
    /\ sched.pc = "loop" /\ sched.stage = "run"
    /\ sched' = IF does = "raise" THEN OnException(sched, CurrentUser)
                ELSE NextUser([sched EXCEPT !.processed = @ + 1,
                                            !.outcome[CurrentUser] = "processed"])
    /\ UNCHANGED <<keyVars, tokVars, chatVars, autoVars, storeVars, settingsVars, namesVars, convVars, depsVars, xchgVars, dirVars, passVars, raceVars>>

\* The environments of a reader's calls.
ReadEnvs == {env \in Envs : env.drive_save = "ok"}

SchedNext ==
    \/ SchedStart
    \/ \E env \in ReadEnvs : SchedAutomationOn(env)
    \/ \E env \in ReadEnvs : SchedLoad(env)
    \/ \E env \in ReadEnvs : SchedToggles(env)
    \/ \E env \in Envs : SchedKey(env)
    \/ \E does \in {"ok", "raise"} : SchedRun(does)

(***************************************************************************)
(* Settings writers and readers as the /me endpoints call them (storage.py) *)
(***************************************************************************)

\* The number of settings calls in one behaviour.
MaxSettingsOps == 2

\* The bodies of PUT /me/workflow-toggles: partial dicts, one of them with a
\* name outside the fixed set.
ToggleBodies ==
    {[smart_inbox |-> FALSE],
     [document_intelligence |-> TRUE, chat_spaces |-> FALSE],
     [smart_inbox |-> TRUE, bogus |-> FALSE]}

\* The keys PUT /me/oshaani-key passes on: none (clear), a key, a key with
\* surrounding blanks.
ApiKeys == {"", "k1", " k2 "}

\* (api_key or "").strip()
strip(api_key) ==
    IF api_key = None THEN "" ELSE IF api_key = " k2 " THEN "k2" ELSE api_key

\* json.dumps of a bool
JsonBool(b) == IF b THEN "true" ELSE "false"

\* The result of a settings writer: the store after it, whether it raised
\* and the class of the exception (RuntimeError, or another Exception).
Done(d, raised, err) == [store |-> d, raised |-> raised, err |-> err]

\* The exception a raising load_credentials call lets through.
LoadError(l) == IF l.path = "RuntimeError" THEN "RuntimeError" ELSE "Exception"

\* current[k] = bool(toggles[k]) for every fixed name k in toggles
WriteToggles(current, toggles) ==
    [k \in (DOMAIN current) \cup ((DOMAIN toggles) \cap (DOMAIN DEFAULT_WORKFLOW_TOGGLES)) |->
        IF k \in DOMAIN toggles /\ k \in DOMAIN DEFAULT_WORKFLOW_TOGGLES
        THEN toggles[k] ELSE current[k]]

\* set_user_workflow_toggles after its load_credentials call returned l.
SetTogglesWith(l, user_id, toggles, env) ==
    LET existing == ExistingBlob(l.store, user_id, env)
        current == IF existing.has_toggles THEN existing.workflow_toggles
                   ELSE [k \in {} |-> TRUE]
    IN IF l.raised THEN Done(l.store, TRUE, LoadError(l))
       ELSE IF l.absent THEN Done(l.store, TRUE, "RuntimeError")
       ELSE IF env.drive_load = "raise" \/ env.drive_save = "fail"
       THEN Done(l.store, TRUE, "RuntimeError")
       ELSE Done([l.store EXCEPT !.drive[user_id] =
                     [existing EXCEPT !.exists = TRUE, !.has_toggles = TRUE,
                                      !.workflow_toggles = WriteToggles(current, toggles)]],
                 FALSE, "")

set_user_workflow_toggles(d, user_id, toggles, now, env) ==
    SetTogglesWith(load_credentials(d, user_id, now, env), user_id, toggles, env)

\* set_user_oshaani_key after its load_credentials call returned l; the
\* finally block unlinks the legacy settings file on every way out of the try.
SetKeyWith(l, user_id, api_key, env) ==
    LET existing == ExistingBlob(l.store, user_id, env)
        key == strip(api_key)
        unlinked == [l.store EXCEPT !.user_settings[user_id] = NoSettings]
    IN IF l.raised THEN Done(l.store, TRUE, LoadError(l))
       ELSE IF l.absent THEN Done(l.store, TRUE, "RuntimeError")
       ELSE IF env.drive_load = "raise" THEN Done(unlinked, TRUE, "Exception")
       ELSE IF env.drive_save = "fail" THEN Done(unlinked, TRUE, "RuntimeError")
       ELSE Done([unlinked EXCEPT !.drive[user_id] =
                     [existing EXCEPT
                         !.exists = TRUE,
                         !.oshaani_api_key = IF Truthy(key) THEN key ELSE None]],
                 FALSE, "")

set_user_oshaani_key(d, user_id, api_key, now, env) ==
    SetKeyWith(load_credentials(d, user_id, now, env), user_id, api_key, env)

\* The Drive sync of set_user_automation_enabled, l being the result of its
\* load_credentials call: every failure of the sync is logged and swallowed,
\* an exception of load_credentials is not.
SyncAutomationWith(l, user_id, enabled, env) ==
    IF l.raised THEN Done(l.store, TRUE, LoadError(l))
    ELSE IF l.absent \/ env.drive_load = "raise" \/ env.drive_save = "fail"
    THEN Done(l.store, FALSE, "")
    ELSE Done([l.store EXCEPT !.drive[user_id] =
                  [ExistingBlob(l.store, user_id, env) EXCEPT
                      !.exists = TRUE, !.automation_enabled = JsonBool(enabled)]],
              FALSE, "")

\* A faulty variant: the flag goes to Drive only, no local file is written.
set_user_automation_enabled_remote_only(d, user_id, enabled, now, env) ==
    SyncAutomationWith(load_credentials(d, user_id, now, env), user_id, enabled, env)

\* set_user_automation_enabled: the local file first (RuntimeError when it
\* cannot be written), then the Drive sync.
set_user_automation_enabled(d, user_id, enabled, now, env) ==
    IF env.disk = "open_fails" THEN Done(d, TRUE, "RuntimeError")
    ELSE IF env.disk = "write_fails"
    THEN Done([d EXCEPT !.automation_local[user_id] =
                  [exists |-> TRUE, valid |-> FALSE, enabled |-> TRUE]],
              TRUE, "RuntimeError")
    ELSE SyncAutomationWith(
             load_credentials(
                 [d EXCEPT !.automation_local[user_id] =
                     [exists |-> TRUE, valid |-> TRUE, enabled |-> enabled]],
                 user_id, now, env),
             user_id, enabled, env)

\* What earlier runs left for a user of the settings endpoints; also a login
\* with a legacy settings file that json.load cannot parse.
SettingsProfiles == {"new", "settled", "active", "garbled"}

\* The user whose session calls the settings endpoints; the other user's
\* files are those of a settled login.
SessionUser == "a@x.co"

\* The environments that differ in what a settings call does: a failing
\* token endpoint or disk ends the call before Drive is reached, a raising
\* Drive read before the Drive write.
SettingsEnvs ==
    {env \in Envs :
        /\ env.ep.kind \in {"ok", "scope", "network"}
        /\ (env.ep.kind # "ok" \/ env.disk # "ok") =>
               env.drive_load = "ok" /\ env.drive_save = "ok"
        /\ env.ep.kind # "ok" => env.disk = "ok"
        /\ env.drive_load = "raise" => env.drive_save = "ok"}

NoReport == [known |-> FALSE, toggles |-> DEFAULT_WORKFLOW_TOGGLES,
             enabled |-> TRUE, key |-> None]

NoCall ==
    [op |-> "none", user |-> None, raised |-> FALSE, err |-> "",
     body |-> [k \in {} |-> TRUE], api_key |-> None, flag |-> TRUE,
     toggles |-> DEFAULT_WORKFLOW_TOGGLES, enabled |-> TRUE, key |-> None,
     drive_read |-> "ok", before |-> StoreOf([u \in Users |-> "new"]),
     told |-> NoReport]

SettingsParked ==
    [steps |-> MaxSettingsOps, now |-> 0, last |-> NoCall,
     toggles |-> [u \in Users |-> NoReport],
     automation |-> [u \in Users |-> NoReport],
     key |-> [u \in Users |-> NoReport]]

SettingsPark == settings = SettingsParked

SettingsInit ==
    \E prof \in [Users -> SettingsProfiles], n \in StoreClock :
        /\ \A u \in Users \ {SessionUser} : prof[u] = "settled"
        /\ store = StoreOf(prof)
        /\ hist = StoreParkedHist
        /\ settings =
             [SettingsParked EXCEPT
                 !.steps = 0, !.now = n,
                 !.toggles =
                     [u \in Users |->
                         [NoReport EXCEPT
                             !.toggles =
                                 MergeToggles(StoreOf(prof).drive[u].workflow_toggles)]]]

\* The call just made, with the store it found.
Call(op, user_id, o, env) ==
    [NoCall EXCEPT !.op = op, !.user = user_id, !.raised = o.raised,
                   !.drive_read = env.drive_load, !.before = store]

\* One call of set_user_workflow_toggles (PUT /me/workflow-toggles).
SetWorkflowToggles(user_id, body, env) ==
    /\ settings.steps < MaxSettingsOps
    /\ \E o \in {set_user_workflow_toggles(store, user_id, body, settings.now, env)} :
          /\ store' = o.store
          /\ settings' =
               [settings EXCEPT
                  !.steps = @ + 1,
                  !.last = [Call("set_toggles", user_id, o, env) EXCEPT
                               !.err = o.err, !.body = body,
                               !.told = settings.toggles[user_id]],
                  !.toggles[user_id] =
                      IF o.raised THEN @
                      ELSE [@ EXCEPT !.known = TRUE,
                                     !.toggles =
                                         MergeToggles(WriteToggles(@, body))]]
    /\ UNCHANGED <<keyVars, tokVars, chatVars, autoVars, hist, schedVars, namesVars, convVars, depsVars, xchgVars, dirVars, passVars, raceVars>>

\* One call of get_user_workflow_toggles (GET /me/workflow-toggles).
GetWorkflowToggles(user_id, env) ==
    /\ settings.steps < MaxSettingsOps
    /\ env \in ReadEnvs
    /\ \E o \in {get_user_workflow_toggles(store, user_id, settings.now, env)} :
          /\ store' = o.store
          /\ settings' =
               [settings EXCEPT
                  !.steps = @ + 1,
                  !.last = [Call("get_toggles", user_id, o, env) EXCEPT
                               !.toggles = o.value,
                               !.told = settings.toggles[user_id]]]
    /\ UNCHANGED <<keyVars, tokVars, chatVars, autoVars, hist, schedVars, namesVars, convVars, depsVars, xchgVars, dirVars, passVars, raceVars>>

\* One call of set_user_oshaani_key (PUT /me/oshaani-key).
SetOshaaniKey(user_id, api_key, env) ==
    /\ settings.steps < MaxSettingsOps
    /\ \E o \in {set_user_oshaani_key(store, user_id, api_key, settings.now, env)} :
          /\ store' = o.store
          /\ settings' =
               [settings EXCEPT
                  !.steps = @ + 1,
                  !.last = [Call("set_key", user_id, o, env) EXCEPT
                               !.err = o.err, !.api_key = api_key,
                               !.told = settings.key[user_id]],
                  !.key[user_id] =
                      IF o.raised THEN @
                      ELSE [@ EXCEPT !.known = TRUE,
                                     !.key = IF Truthy(strip(api_key))
                                             THEN strip(api_key) ELSE None]]
    /\ UNCHANGED <<keyVars, tokVars, chatVars, autoVars, hist, schedVars, namesVars, convVars, depsVars, xchgVars, dirVars, passVars, raceVars>>

\* One call of get_user_oshaani_key (GET /me/oshaani-key).
GetOshaaniKey(user_id, env) ==
    /\ settings.steps < MaxSettingsOps
    /\ \E o \in {get_user_oshaani_key(store, user_id, settings.now, env)} :
          /\ store' = o.store
          /\ settings' =
               [settings EXCEPT
                  !.steps = @ + 1,
                  !.last = [Call("get_key", user_id, o, env) EXCEPT
                               !.key = o.value,
                               !.told = settings.key[user_id]]]
    /\ UNCHANGED <<keyVars, tokVars, chatVars, autoVars, hist, schedVars, namesVars, convVars, depsVars, xchgVars, dirVars, passVars, raceVars>>

\* One call of set_user_automation_enabled (PUT /me/automation).
SetAutomationEnabled(user_id, enabled, env) ==
    /\ settings.steps < MaxSettingsOps
    /\ \E o \in {set_user_automation_enabled(store, user_id, enabled, settings.now, env)} :
          /\ store' = o.store
          /\ settings' =
               [settings EXCEPT
                  !.steps = @ + 1,
                  !.last = [Call("set_automation", user_id, o, env) EXCEPT
                               !.err = o.err, !.flag = enabled,
                               !.told = settings.automation[user_id]],
                  !.automation[user_id] =
                      IF o.raised THEN NoReport
                      ELSE [@ EXCEPT !.known = TRUE, !.enabled = enabled]]
    /\ UNCHANGED <<keyVars, tokVars, chatVars, autoVars, hist, schedVars, namesVars, convVars, depsVars, xchgVars, dirVars, passVars, raceVars>>

\* One call of get_user_automation_enabled (GET /me/automation).
GetAutomationEnabled(user_id, env) ==
    /\ settings.steps < MaxSettingsOps
    /\ env \in ReadEnvs
    /\ \E o \in {get_user_automation_enabled(store, user_id, settings.now, env)} :
          /\ store' = o.store
          /\ settings' =
               [settings EXCEPT
                  !.steps = @ + 1,
                  !.last = [Call("get_automation", user_id, o, env) EXCEPT
                               !.enabled = o.value,
                               !.told = settings.automation[user_id]]]
    /\ UNCHANGED <<keyVars, tokVars, chatVars, autoVars, hist, schedVars, namesVars, convVars, depsVars, xchgVars, dirVars, passVars, raceVars>>

SettingsNext ==
    \/ \E body \in ToggleBodies, env \in SettingsEnvs :
          SetWorkflowToggles(SessionUser, body, env)
    \/ \E env \in SettingsEnvs : GetWorkflowToggles(SessionUser, env)
    \/ \E k \in ApiKeys, env \in SettingsEnvs : SetOshaaniKey(SessionUser, k, env)
    \/ \E env \in SettingsEnvs : GetOshaaniKey(SessionUser, env)
    \/ \E v \in BOOLEAN, env \in SettingsEnvs : SetAutomationEnabled(SessionUser, v, env)
    \/ \E env \in SettingsEnvs : GetAutomationEnabled(SessionUser, env)

(***************************************************************************)
(* Conversation identifiers (services/orchestrator.py and the entry        *)
(* points: the scheduler, the HTTP endpoints, the MCP tools)               *)
(***************************************************************************)

MaxInvocations == 2

SafeUserLen == 40

SafeSpaceLen == 60

\* The characters of the model that the class [a-zA-Z0-9_-] matches.
WordChars == {"a", "b", "c", "o", "x", "y", "s", "p", "e", "A", "B", "_", "-"}

\* re.sub(r"[^a-zA-Z0-9_-]", rep, s): every other character becomes rep.
re_sub(rep, s) == [i \in 1..Len(s) |-> IF s[i] \in WordChars THEN s[i] ELSE rep]

\* safe_user and safe_space: the substitution, then the slice.
safe_user(user_id) == Take(re_sub("_", user_id), SafeUserLen)

safe_space(space_name) == Take(re_sub("-", space_name), SafeSpaceLen)

\* An argument left out (None) and the empty string are both <<>> here:
\* `user_id or ""` and `if space_name:` do not tell them apart.
Omitted == <<>>

_conversation_id_for_chat(user_id, space_name) ==
    "ge-chat-" \o Join(safe_user(user_id)) \o "-" \o Join(safe_space(space_name))

_conversation_id_for_workflow(user_id, workflow) ==
    "ge-" \o workflow \o "-" \o Join(safe_user(user_id))

\* `conversation_id or <derived>`; no entry point passes conversation_id.
OrDerived(conversation_id, derived) ==
    IF conversation_id = "" THEN derived ELSE conversation_id

\* One call of the agent: who it was made for, the workflow and the space
\* the identifier is meant to be scoped to, and the identifier sent.
Sent(entry, caller, workflow, space_name, conv_id) ==
    [entry |-> entry, user |-> caller, workflow |-> workflow,
     space |-> space_name, conv_id |-> conv_id]

\* The orchestrator methods, as the identifier they send; caller is the
\* user whose credentials are used, user_id the keyword argument.
run_smart_inbox(entry, caller, conversation_id, user_id) ==
    Sent(entry, caller, "smart-inbox", Omitted,
         OrDerived(conversation_id, _conversation_id_for_workflow(user_id, "smart-inbox")))

run_first_email_draft(entry, caller, user_id) ==
    Sent(entry, caller, "email-draft", Omitted,
         _conversation_id_for_workflow(user_id, "email-draft"))

run_chat_assistant(entry, caller, space_name, conversation_id, user_id) ==
    IF space_name # Omitted
    THEN Sent(entry, caller, "chat", space_name,
              OrDerived(conversation_id, _conversation_id_for_chat(user_id, space_name)))
    ELSE Sent(entry, caller, "chat-assistant", Omitted,
              OrDerived(conversation_id, _conversation_id_for_workflow(user_id, "chat-assistant")))

run_document_intelligence(entry, caller, conversation_id, user_id) ==
    Sent(entry, caller, "doc-intel", Omitted,
         OrDerived(conversation_id, _conversation_id_for_workflow(user_id, "doc-intel")))

run_custom(entry, caller, conversation_id, user_id) ==
    Sent(entry, caller, "custom", Omitted,
         OrDerived(conversation_id, _conversation_id_for_workflow(user_id, "custom")))

run_chat_auto_reply(entry, caller, space_name, user_id) ==
    Sent(entry, caller, "chat", space_name, _conversation_id_for_chat(user_id, space_name))

\* run_all_workflows_for_user(user_id, creds, ...): the calls of the agent
\* it makes; spaces are the direct-message spaces with a message to answer.
run_all_workflows_for_user(entry, user_id, smart_inbox, document_intelligence, spaces) ==
    (IF smart_inbox
        THEN {run_smart_inbox(entry, user_id, "", user_id)} ELSE {})
    \cup (IF document_intelligence
        THEN {run_document_intelligence(entry, user_id, "", user_id)} ELSE {})
    \cup {run_chat_auto_reply(entry, user_id, sp, user_id) : sp \in spaces}

\* The users that log in and the chat spaces they are in.
ConvUsers ==
    { <<"a", ".", "b", "@", "x", ".", "c", "o">>,
      <<"a", "_", "b", "@", "x", ".", "c", "o">>,
      <<"b", "@", "y", ".", "c", "o">> }

ConvSpaces ==
    { <<"s", "p", "a", "c", "e", "s", "/", "A">>,
      <<"s", "p", "a", "c", "e", "s", "/", "B">> }

ConvParked == [pc |-> "parked", calls |-> 0, sent |-> {}]

ConvPark == conv = ConvParked

ConvInit == conv = [ConvParked EXCEPT !.pc = "serving"]

\* A handler ran and called the agent with these identifiers.
Invoke(calls) ==
    /\ conv.pc = "serving"
    /\ conv.calls < MaxInvocations
    /\ conv' = [conv EXCEPT !.calls = @ + 1, !.sent = @ \cup calls]
    /\ UNCHANGED <<keyVars, tokVars, chatVars, autoVars, storeVars, schedVars, settingsVars, namesVars, depsVars, xchgVars, dirVars, passVars, raceVars>>

\* _run_automation_for_all_users: one user of a pass.
SchedulerRunAll(u, si, di, spaces) ==
    Invoke(run_all_workflows_for_user("scheduler", u, si, di, spaces))

\* POST /workflows/run-all
HttpRunAll(u, si, di, spaces) ==
    Invoke(run_all_workflows_for_user("http", u, si, di, spaces))

\* POST /workflows/smart-inbox
HttpSmartInbox(u) == Invoke({run_smart_inbox("http", u, "", u)})

\* POST /workflows/chat-assistant
HttpChatAssistant(u, space_name) ==
    Invoke({run_chat_assistant("http", u, space_name, "", u)})

\* POST /workflows/chat-auto-reply
HttpChatAutoReply(u, space_name) ==
    Invoke({run_chat_auto_reply("http", u, space_name, u)})

\* POST /workflows/chat-auto-reply-batch
HttpChatAutoReplyBatch(u, spaces) ==
    /\ spaces # {}
    /\ Invoke({run_chat_auto_reply("http", u, sp, u) : sp \in spaces})

\* POST /workflows/document-intelligence
HttpDocumentIntelligence(u) == Invoke({run_document_intelligence("http", u, "", u)})

\* POST /workflows/first-email-draft
HttpFirstEmailDraft(u) == Invoke({run_first_email_draft("http", u, u)})

\* POST /workflows/custom
HttpCustom(u) == Invoke({run_custom("http", u, "", u)})

\* The MCP tools: _handle_tools_call resolves the user and the user's
\* credentials, and calls the orchestrator without user_id.
McpSmartInbox(u) == Invoke({run_smart_inbox("mcp", u, "", Omitted)})

McpFirstEmailDraft(u) == Invoke({run_first_email_draft("mcp", u, Omitted)})

McpDocumentIntelligence(u) == Invoke({run_document_intelligence("mcp", u, "", Omitted)})

McpChatAutoReply(u, space_name) ==
    Invoke({run_chat_auto_reply("mcp", u, space_name, Omitted)})

McpRunAllWorkflows(u, spaces) ==
    Invoke(run_all_workflows_for_user("mcp_run_all", u, TRUE, TRUE, spaces))

ConvNext ==
    \/ \E u \in ConvUsers, si \in BOOLEAN, di \in BOOLEAN, spaces \in SUBSET ConvSpaces :
          SchedulerRunAll(u, si, di, spaces)
    \/ \E u \in ConvUsers, si \in BOOLEAN, di \in BOOLEAN, spaces \in SUBSET ConvSpaces :
          HttpRunAll(u, si, di, spaces)
    \/ \E u \in ConvUsers : HttpSmartInbox(u)
    \/ \E u \in ConvUsers, sp \in ConvSpaces \cup {Omitted} : HttpChatAssistant(u, sp)
    \/ \E u \in ConvUsers, sp \in ConvSpaces : HttpChatAutoReply(u, sp)
    \/ \E u \in ConvUsers, spaces \in SUBSET ConvSpaces : HttpChatAutoReplyBatch(u, spaces)
    \/ \E u \in ConvUsers : HttpDocumentIntelligence(u)
    \/ \E u \in ConvUsers : HttpFirstEmailDraft(u)
    \/ \E u \in ConvUsers : HttpCustom(u)
    \/ \E u \in ConvUsers : McpSmartInbox(u)
    \/ \E u \in ConvUsers : McpFirstEmailDraft(u)
    \/ \E u \in ConvUsers : McpDocumentIntelligence(u)
    \/ \E u \in ConvUsers, sp \in ConvSpaces : McpChatAutoReply(u, sp)
    \/ \E u \in ConvUsers, spaces \in SUBSET ConvSpaces : McpRunAllWorkflows(u, spaces)

(***************************************************************************)
(* The identity of a request (auth/deps.py)                                *)
(***************************************************************************)

\* What a request carries: no Authorization header or a bearer string, and
\* a session with no user_id, an empty one, or the user who signed in.
Bearers == {None} \cup LookupStrings

Sessions == {None, ""} \cup Users

Resolved(user_id) == [status |-> 200, user_id |-> user_id]

Unauthorized == [status |-> 401, user_id |-> None]

\* A faulty variant: the session is looked at before the API key.
get_current_user_session_first(data, bearer, session) ==
    IF Truthy(session) THEN Resolved(session)
    ELSE IF Truthy(bearer) /\ Truthy(get_user_by_api_key(data, bearer))
         THEN Resolved(get_user_by_api_key(data, bearer))
         ELSE Unauthorized

\* get_current_user(request, credentials): the API key first, then the
\* session, else HTTPException(401).
get_current_user(data, bearer, session) ==
    IF Truthy(bearer) /\ Truthy(get_user_by_api_key(data, bearer))
    THEN Resolved(get_user_by_api_key(data, bearer))
    ELSE IF Truthy(session) THEN Resolved(session)
         ELSE Unauthorized

DepsParked == [pc |-> "parked", bearer |-> None, session |-> None,
               status |-> 0, user_id |-> None, ran_as |-> None]

DepsPark == authn = DepsParked

DepsInit == authn = [DepsParked EXCEPT !.pc = "idle"]

\* A request to an endpoint that declares Depends(get_current_user), such
\* as GET /me: the endpoint body runs with the resolved user, or not at all.
ProtectedRequest(bearer, session) ==
    /\ authn.pc = "idle"
    /\ \E r \in {get_current_user(_load_api_keys, bearer, session)} :
          authn' = [pc |-> "done", bearer |-> bearer, session |-> session,
                    status |-> r.status, user_id |-> r.user_id,
                    ran_as |-> IF r.status = 200 THEN r.user_id ELSE None]
    /\ UNCHANGED <<keyVars, tokVars, chatVars, autoVars, storeVars, schedVars, settingsVars, namesVars, convVars, xchgVars, dirVars, passVars, raceVars>>

\* Keys are issued and revoked, then a request comes in.
DepsNext ==
    \/ authn.pc = "idle" /\ KeysNext
    \/ \E bearer \in Bearers, session \in Sessions : ProtectedRequest(bearer, session)

(***************************************************************************)
(* The authorization-code exchange (auth/google_oauth.py)                  *)
(***************************************************************************)

MaxScopeLen == 4

\* The characters of a scope field: two letters and the separator.
ScopeAlphabet == {"g", "c", " "}

ScopeFields == UNION {[1..n -> ScopeAlphabet] : n \in 0..MaxScopeLen}

\* The scopes the authorization URL asked for (config.GOOGLE_SCOPES).
GOOGLE_SCOPES == <<"g", "c">>

\* data.get("expires_in", 3600), in clock units.
DefaultExpiresIn == 1

\* str.split(): the runs of characters between whitespace, in order.
RECURSIVE SplitFrom(_, _, _)
SplitFrom(s, cur, acc) ==
    IF s = <<>> THEN (IF cur = "" THEN acc ELSE Append(acc, cur))
    ELSE IF Head(s) = " "
         THEN SplitFrom(Tail(s), "", IF cur = "" THEN acc ELSE Append(acc, cur))
         ELSE SplitFrom(Tail(s), cur \o Head(s), acc)

split(s) == SplitFrom(s, "", <<>>)

\* The JSON body of the token endpoint's answer and its HTTP status. A key
\* that is missing from the body has its has_ field FALSE.
TokenResponses ==
    [status : {200, 500},
     has_error : BOOLEAN,
     has_access_token : BOOLEAN,
     has_refresh_token : BOOLEAN,
     has_expires_in : BOOLEAN,
     expires_in : 0..MaxLifetime,
     has_scope : BOOLEAN,
     scope : ScopeFields]

\* One body per answer: a missing key carries no value.
WellFormed(resp) ==
    /\ ~resp.has_expires_in => resp.expires_in = 0
    /\ ~resp.has_scope => resp.scope = <<>>

Exchanged(creds) == [raised |-> None, creds |-> creds]

ExchangeRaised(e) == [raised |-> e, creds |-> Creds(None, None, NoExpiry, <<>>)]

\* data.get("expires_in", 3600), data.get("scope", "")
expires_in_of(data) == IF data.has_expires_in THEN data.expires_in ELSE DefaultExpiresIn

scope_str_of(data) == IF data.has_scope THEN data.scope ELSE <<>>

\* A faulty variant: the credential always carries the requested scopes.
_parse_token_response_requested(data, now) ==
    IF ~data.has_access_token THEN ExchangeRaised("KeyError")
    ELSE Exchanged(Creds("at",
                         IF data.has_refresh_token THEN "rt" ELSE None,
                         IF expires_in_of(data) # 0
                             THEN Aware(now + expires_in_of(data), 0) ELSE NoExpiry,
                         GOOGLE_SCOPES))

\* _parse_token_response(data), called at the clock reading now.
_parse_token_response(data, now) ==
    IF ~data.has_access_token THEN ExchangeRaised("KeyError")
    ELSE Exchanged(Creds("at",
                         IF data.has_refresh_token THEN "rt" ELSE None,
                         IF expires_in_of(data) # 0
                             THEN Aware(now + expires_in_of(data), 0) ELSE NoExpiry,
                         IF scope_str_of(data) # <<>>
                             THEN split(scope_str_of(data)) ELSE GOOGLE_SCOPES))

\* exchange_code_for_credentials(code), given the answer to its one POST.
exchange_code_for_credentials(resp, now) ==
    IF resp.status >= 400 THEN ExchangeRaised("HTTPStatusError")
    ELSE IF resp.has_error THEN ExchangeRaised("ValueError")
    ELSE _parse_token_response(resp, now)

XchgParked ==
    [pc |-> "parked", now |-> 0,
     resp |-> [status |-> 200, has_error |-> FALSE, has_access_token |-> FALSE,
               has_refresh_token |-> FALSE, has_expires_in |-> FALSE,
               expires_in |-> 0, has_scope |-> FALSE, scope |-> <<>>],
     raised |-> None, creds |-> Creds(None, None, NoExpiry, <<>>)]

XchgPark == xchg = XchgParked

XchgInit == xchg = [XchgParked EXCEPT !.pc = "callback"]

\* GET /auth/callback?code=...: the code is exchanged once.
ExchangeCode(resp, now) ==
    /\ xchg.pc = "callback"
    /\ WellFormed(resp)
    /\ \E r \in {exchange_code_for_credentials(resp, now)} :
          xchg' = [pc |-> "done", now |-> now, resp |-> resp,
                   raised |-> r.raised, creds |-> r.creds]
    /\ UNCHANGED <<keyVars, tokVars, chatVars, autoVars, storeVars, schedVars, settingsVars, namesVars, convVars, depsVars, dirVars, passVars, raceVars>>

XchgNext ==
    /\ xchg.pc = "callback"
    /\ \E resp \in TokenResponses, now \in 0..MaxTime : ExchangeCode(resp, now)

(***************************************************************************)
(* The files of DATA_DIR by name (storage.py: the path functions)          *)
(***************************************************************************)

\* The number of storage calls in one behaviour.
MaxDirOps == 2

\* Three addresses that log in.
DirUsers ==
    { <<"a", ".", "b", "@", "x", ".", "c", "o">>,
      <<"a", "_", "d", "o", "t", "_", "b", "@", "x", ".", "c", "o">>,
      <<"b", "@", "y", ".", "c", "o">> }

\* The part of a file name that depends on the user:
\* f"{PREFIX}{_safe_filename(user_id)}.json".
FileKey(user_id) == Join(_safe_filename(user_id))

FileKeys == {FileKey(u) : u \in DirUsers}

\* What a call made for a user finds: the bootstrap, automation and settings
\* files at the paths of each user; creds_{user_id}.json carries the id as
\* it is, and the Drive blob is the one of the user's account.
FilesOf(dr) ==
    [bootstrap |-> [u \in DirUsers |-> dr.bootstrap[FileKey(u)]],
     legacy |-> dr.legacy,
     automation_local |-> [u \in DirUsers |-> dr.automation_local[FileKey(u)]],
     user_settings |-> [u \in DirUsers |-> dr.user_settings[FileKey(u)]],
     drive |-> dr.drive]

\* The directory after a call made for user_id left its files as in s.
Written(dr, user_id, s) ==
    [dr EXCEPT !.steps = @ + 1, !.user = user_id,
               !.bootstrap[FileKey(user_id)] = s.bootstrap[user_id],
               !.legacy = s.legacy,
               !.automation_local[FileKey(user_id)] = s.automation_local[user_id],
               !.user_settings[FileKey(user_id)] = s.user_settings[user_id],
               !.drive = s.drive]

DirParked ==
    [steps |-> MaxDirOps, now |-> 0, user |-> <<>>,
     bootstrap |-> [k \in FileKeys |-> NoFile],
     legacy |-> [u \in DirUsers |-> NoFile],
     automation_local |-> [k \in FileKeys |-> NoFlag],
     user_settings |-> [k \in FileKeys |-> NoSettings],
     drive |-> [u \in DirUsers |-> NoBlob]]

DirPark == dir = DirParked

\* An empty DATA_DIR.
DirInit == \E n \in StoreClock : dir = [DirParked EXCEPT !.steps = 0, !.now = n]

DirSave(user_id, credentials_dict, env) ==
    /\ dir.steps < MaxDirOps
    /\ \E o \in {save_credentials(FilesOf(dir), user_id, credentials_dict, env)} :
          dir' = Written(dir, user_id, o.store)
    /\ UNCHANGED <<keyVars, tokVars, chatVars, autoVars, storeVars, schedVars, settingsVars, namesVars, convVars, depsVars, xchgVars, passVars, raceVars>>

DirLoad(user_id, env) ==
    /\ dir.steps < MaxDirOps
    /\ \E o \in {load_credentials(FilesOf(dir), user_id, dir.now, env)} :
          dir' = Written(dir, user_id, o.store)
    /\ UNCHANGED <<keyVars, tokVars, chatVars, autoVars, storeVars, schedVars, settingsVars, namesVars, convVars, depsVars, xchgVars, passVars, raceVars>>

DirDelete(user_id) ==
    /\ dir.steps < MaxDirOps
    /\ \E o \in {delete_credentials(FilesOf(dir), user_id)} :
          dir' = Written(dir, user_id, o.store)
    /\ UNCHANGED <<keyVars, tokVars, chatVars, autoVars, storeVars, schedVars, settingsVars, namesVars, convVars, depsVars, xchgVars, passVars, raceVars>>

DirSetAutomation(user_id, enabled, env) ==
    /\ dir.steps < MaxDirOps
    /\ \E o \in {set_user_automation_enabled(FilesOf(dir), user_id, enabled, dir.now, env)} :
          dir' = Written(dir, user_id, o.store)
    /\ UNCHANGED <<keyVars, tokVars, chatVars, autoVars, storeVars, schedVars, settingsVars, namesVars, convVars, depsVars, xchgVars, passVars, raceVars>>

DirGetKey(user_id, env) ==
    /\ dir.steps < MaxDirOps
    /\ \E o \in {get_user_oshaani_key(FilesOf(dir), user_id, dir.now, env)} :
          dir' = Written(dir, user_id, o.store)
    /\ UNCHANGED <<keyVars, tokVars, chatVars, autoVars, storeVars, schedVars, settingsVars, namesVars, convVars, depsVars, xchgVars, passVars, raceVars>>

DirNext ==
    \/ \E u \in DirUsers, cd \in SavedDicts, env \in SettingsEnvs : DirSave(u, cd, env)
    \/ \E u \in DirUsers, env \in SettingsEnvs : DirLoad(u, env)
    \/ \E u \in DirUsers : DirDelete(u)
    \/ \E u \in DirUsers, v \in BOOLEAN, env \in SettingsEnvs : DirSetAutomation(u, v, env)
    \/ \E u \in DirUsers, env \in SettingsEnvs : DirGetKey(u, env)

(***************************************************************************)
(* startup_event and the executions of the automation pass (main.py)       *)
(***************************************************************************)

\* Time is counted in ticks of ten seconds, up to this horizon.
MaxNow == 26

\* The largest AUTOMATION_INTERVAL_MINUTES of the configurations checked.
MaxMinutes == 2

TicksPerMinute == 6

\* threading.Timer(10, _run_automation_for_all_users): ten seconds.
TimerDelay == 1

\* add_job is called without max_instances: the scheduler runs at most one
\* instance of the job at a time and skips a run that comes due meanwhile.
MaxInstances == 1

PassParked ==
    [pc |-> "parked", AUTOMATION_ENABLED |-> FALSE, minutes |-> 1, now |-> 0,
     timer |-> "none", timer_due |-> 0, next_run_time |-> 0, instances |-> 0,
     active |-> 0, started |-> 0, missed |-> 0]

PassPark == passes = PassParked

\* The configuration at application start.
PassInit ==
    \E ae \in BOOLEAN, m \in 1..MaxMinutes :
        passes = [PassParked EXCEPT !.pc = "startup", !.AUTOMATION_ENABLED = ae,
                                    !.minutes = m]

\* startup_event: with AUTOMATION_ENABLED the interval job is added, the
\* scheduler started and the one-off timer armed.
startup_event ==
    /\ passes.pc = "startup"
    /\ passes' = IF passes.AUTOMATION_ENABLED
                 THEN [passes EXCEPT !.pc = "up", !.timer = "armed",
                          !.timer_due = passes.now + TimerDelay,
                          !.next_run_time = passes.now + passes.minutes * TicksPerMinute]
                 ELSE [passes EXCEPT !.pc = "up"]
    /\ UNCHANGED <<keyVars, tokVars, chatVars, autoVars, storeVars, schedVars, settingsVars, namesVars, convVars, depsVars, xchgVars, dirVars, raceVars>>

\* Ten seconds pass; the timer and the job fire when they are due.
PassTick ==
    /\ passes.pc = "up"
    /\ passes.now < MaxNow
    /\ passes.timer = "armed" => passes.now < passes.timer_due
    /\ passes.AUTOMATION_ENABLED => passes.now < passes.next_run_time
    /\ passes' = [passes EXCEPT !.now = @ + 1]
    /\ UNCHANGED <<keyVars, tokVars, chatVars, autoVars, storeVars, schedVars, settingsVars, namesVars, convVars, depsVars, xchgVars, dirVars, raceVars>>

\* The timer thread calls _run_automation_for_all_users.
TimerPassBegins ==
    /\ passes.timer = "armed"
    /\ passes.now = passes.timer_due
    /\ passes' = [passes EXCEPT !.timer = "running", !.active = @ + 1,
                                !.started = @ + 1]
    /\ UNCHANGED <<keyVars, tokVars, chatVars, autoVars, storeVars, schedVars, settingsVars, namesVars, convVars, depsVars, xchgVars, dirVars, raceVars>>

\* The pass of the timer thread returns, however long it took.
TimerPassEnds ==
    /\ passes.timer = "running"
    /\ passes' = [passes EXCEPT !.timer = "done", !.active = @ - 1]
    /\ UNCHANGED <<keyVars, tokVars, chatVars, autoVars, storeVars, schedVars, settingsVars, namesVars, convVars, depsVars, xchgVars, dirVars, raceVars>>

\* The interval job comes due: a worker thread of the scheduler calls
\* _run_automation_for_all_users, unless an instance of the job still runs.
IntervalJobDue ==
    /\ passes.pc = "up" /\ passes.AUTOMATION_ENABLED
    /\ passes.now = passes.next_run_time
    /\ passes' =
          IF passes.instances >= MaxInstances
          THEN [passes EXCEPT !.missed = @ + 1,
                   !.next_run_time = @ + passes.minutes * TicksPerMinute]
          ELSE [passes EXCEPT !.instances = @ + 1, !.active = @ + 1,
                   !.started = @ + 1,
                   !.next_run_time = @ + passes.minutes * TicksPerMinute]
    /\ UNCHANGED <<keyVars, tokVars, chatVars, autoVars, storeVars, schedVars, settingsVars, namesVars, convVars, depsVars, xchgVars, dirVars, raceVars>>

\* A pass of the interval job returns, however long it took.
IntervalPassEnds ==
    /\ passes.instances > 0
    /\ passes' = [passes EXCEPT !.instances = @ - 1, !.active = @ - 1]
    /\ UNCHANGED <<keyVars, tokVars, chatVars, autoVars, storeVars, schedVars, settingsVars, namesVars, convVars, depsVars, xchgVars, dirVars, raceVars>>

PassNext ==
    \/ startup_event
    \/ PassTick
    \/ TimerPassBegins
    \/ TimerPassEnds
    \/ IntervalJobDue
    \/ IntervalPassEnds

(***************************************************************************)
(* generate_api_key and revoke_api_key in two threads (storage.py)         *)
(***************************************************************************)

\* The number of calls each thread makes.
MaxRaceOps == 2

\* The threads, and the user each of them makes its calls for.
Threads == {1, 2}

UserOf(t) == IF t = 1 THEN "a@x.co" ELSE "b@y.co"

RaceParked ==
    [file |-> EmptyDict,
     pc |-> [t \in Threads |-> "idle"], op |-> [t \in Threads |-> "none"],
     key |-> [t \in Threads |-> ""], data |-> [t \in Threads |-> EmptyDict],
     ops |-> [t \in Threads |-> MaxRaceOps], issued |-> 0,
     live |-> [u \in Users |-> {}], gone |-> [u \in Users |-> {}],
     overlapped |-> FALSE]

RacePark == race = RaceParked

\* No index file yet, no call made.
RaceInit == race = [RaceParked EXCEPT !.ops = [t \in Threads |-> 0]]

\* A call of thread t starts while the other thread is between its load
\* and its save.
Overlaps(t) == \E o \in Threads \ {t} : race.pc[o] = "loaded"

\* generate_api_key up to its _load_api_keys(): the key is drawn and the
\* index file read.
GenerateLoads(t) ==
    /\ race.pc[t] = "idle" /\ race.ops[t] < MaxRaceOps
    /\ race' = [race EXCEPT !.pc[t] = "loaded", !.op[t] = "generate",
                            !.key[t] = RawKey(race.issued + 1), !.issued = @ + 1,
                            !.data[t] = race.file,
                            !.overlapped = @ \/ Overlaps(t)]
    /\ UNCHANGED <<keyVars, tokVars, chatVars, autoVars, storeVars, schedVars, settingsVars, namesVars, convVars, depsVars, xchgVars, dirVars, passVars>>

\* The rest of generate_api_key: data[_hash_api_key(key)] = user_id,
\* _save_api_keys(data), return key.
GenerateSaves(t) ==
    /\ race.pc[t] = "loaded" /\ race.op[t] = "generate"
    /\ race' = [race EXCEPT !.pc[t] = "idle", !.ops[t] = @ + 1,
                            !.file = DictSet(race.data[t], _hash_api_key(race.key[t]),
                                             UserOf(t)),
                            !.live[UserOf(t)] = @ \cup {race.key[t]}]
    /\ UNCHANGED <<keyVars, tokVars, chatVars, autoVars, storeVars, schedVars, settingsVars, namesVars, convVars, depsVars, xchgVars, dirVars, passVars>>

\* revoke_api_key up to its _load_api_keys().
RevokeLoads(t) ==
    /\ race.pc[t] = "idle" /\ race.ops[t] < MaxRaceOps
    /\ race' = [race EXCEPT !.pc[t] = "loaded", !.op[t] = "revoke",
                            !.data[t] = race.file,
                            !.overlapped = @ \/ Overlaps(t)]
    /\ UNCHANGED <<keyVars, tokVars, chatVars, autoVars, storeVars, schedVars, settingsVars, namesVars, convVars, depsVars, xchgVars, dirVars, passVars>>

\* The rest of revoke_api_key: the filter, and _save_api_keys(data) when an
\* entry was dropped.
RevokeSaves(t) ==
    /\ race.pc[t] = "loaded" /\ race.op[t] = "revoke"
    /\ \E kept \in {RevokeFilter(race.data[t], UserOf(t))} :
          race' = [race EXCEPT
                      !.pc[t] = "idle", !.ops[t] = @ + 1,
                      !.file = IF Cardinality(DOMAIN kept) < Cardinality(DOMAIN race.data[t])
                               THEN kept ELSE @,
                      !.gone[UserOf(t)] = @ \cup race.live[UserOf(t)],
                      !.live[UserOf(t)] = {}]
    /\ UNCHANGED <<keyVars, tokVars, chatVars, autoVars, storeVars, schedVars, settingsVars, namesVars, convVars, depsVars, xchgVars, dirVars, passVars>>

RaceNext ==
    \/ \E t \in Threads : GenerateLoads(t)
    \/ \E t \in Threads : GenerateSaves(t)
    \/ \E t \in Threads : RevokeLoads(t)
    \/ \E t \in Threads : RevokeSaves(t)

(***************************************************************************)
(* Specifications                                                          *)
(***************************************************************************)

InitKeys == KeysInit /\ TokPark /\ ChatPark /\ AutoPark /\ StorePark /\ SchedPark /\ SettingsPark /\ NamesPark /\ ConvPark /\ DepsPark /\ XchgPark /\ DirPark /\ PassPark /\ RacePark

SpecKeys == InitKeys /\ [][KeysNext]_vars

InitTok == TokInit /\ KeysInit /\ ChatPark /\ AutoPark /\ StorePark /\ SchedPark /\ SettingsPark /\ NamesPark /\ ConvPark /\ DepsPark /\ XchgPark /\ DirPark /\ PassPark /\ RacePark

SpecTok == InitTok /\ [][TokNext]_vars

InitChat == ChatInit /\ KeysInit /\ TokPark /\ AutoPark /\ StorePark /\ SchedPark /\ SettingsPark /\ NamesPark /\ ConvPark /\ DepsPark /\ XchgPark /\ DirPark /\ PassPark /\ RacePark

SpecChat == InitChat /\ [][ChatNext]_vars

InitAuto == AutoInit /\ KeysInit /\ TokPark /\ ChatPark /\ StorePark /\ SchedPark /\ SettingsPark /\ NamesPark /\ ConvPark /\ DepsPark /\ XchgPark /\ DirPark /\ PassPark /\ RacePark

SpecAuto == InitAuto /\ [][AutoNext]_vars

InitStore == StoreInit /\ KeysInit /\ TokPark /\ ChatPark /\ AutoPark /\ SchedPark /\ SettingsPark /\ NamesPark /\ ConvPark /\ DepsPark /\ XchgPark /\ DirPark /\ PassPark /\ RacePark

SpecStore == InitStore /\ [][StoreNext]_vars

InitSched == SchedInit /\ KeysInit /\ TokPark /\ ChatPark /\ AutoPark /\ SettingsPark /\ NamesPark /\ ConvPark /\ DepsPark /\ XchgPark /\ DirPark /\ PassPark /\ RacePark

SpecSched == InitSched /\ [][SchedNext]_vars

InitSettings == SettingsInit /\ KeysInit /\ TokPark /\ ChatPark /\ AutoPark /\ SchedPark /\ NamesPark /\ ConvPark /\ DepsPark /\ XchgPark /\ DirPark /\ PassPark /\ RacePark

SpecSettings == InitSettings /\ [][SettingsNext]_vars

InitNames == NamesInit /\ KeysInit /\ TokPark /\ ChatPark /\ AutoPark /\ StorePark /\ SchedPark /\ SettingsPark /\ ConvPark /\ DepsPark /\ XchgPark /\ DirPark /\ PassPark /\ RacePark

SpecNames == InitNames /\ [][NamesNext]_vars

InitConv == ConvInit /\ KeysInit /\ TokPark /\ ChatPark /\ AutoPark /\ StorePark /\ SchedPark /\ SettingsPark /\ NamesPark /\ DepsPark /\ XchgPark /\ DirPark /\ PassPark /\ RacePark

SpecConv == InitConv /\ [][ConvNext]_vars

InitDeps == DepsInit /\ KeysInit /\ TokPark /\ ChatPark /\ AutoPark /\ StorePark /\ SchedPark /\ SettingsPark /\ NamesPark /\ ConvPark /\ XchgPark /\ DirPark /\ PassPark /\ RacePark

SpecDeps == InitDeps /\ [][DepsNext]_vars

InitXchg == XchgInit /\ KeysInit /\ TokPark /\ ChatPark /\ AutoPark /\ StorePark /\ SchedPark /\ SettingsPark /\ NamesPark /\ ConvPark /\ DepsPark /\ DirPark /\ PassPark /\ RacePark

SpecXchg == InitXchg /\ [][XchgNext]_vars

InitDir == DirInit /\ KeysInit /\ TokPark /\ ChatPark /\ AutoPark /\ StorePark /\ SchedPark /\ SettingsPark /\ NamesPark /\ ConvPark /\ DepsPark /\ XchgPark /\ PassPark /\ RacePark

SpecDir == InitDir /\ [][DirNext]_vars

InitPass == PassInit /\ KeysInit /\ TokPark /\ ChatPark /\ AutoPark /\ StorePark /\ SchedPark /\ SettingsPark /\ NamesPark /\ ConvPark /\ DepsPark /\ XchgPark /\ DirPark /\ RacePark

SpecPass == InitPass /\ [][PassNext]_vars

InitRace == RaceInit /\ KeysInit /\ TokPark /\ ChatPark /\ AutoPark /\ StorePark /\ SchedPark /\ SettingsPark /\ NamesPark /\ ConvPark /\ DepsPark /\ XchgPark /\ DirPark /\ PassPark

SpecRace == InitRace /\ [][RaceNext]_vars

(***************************************************************************)
(* Claims                                                                  *)
(***************************************************************************)

\* C5 (as claimed): the decision of refresh_credentials_if_needed is "needs
\* refresh" exactly when the access token is absent, the expiry is absent or
\* the expiry's instant is at or before now, whether the expiry is naive or
\* aware; the comparison never raises.
C5_FreshnessDecisionAsClaimed ==
    (tok.pc = "done" /\ tok.out.decided) =>
        /\ tok.out.needs_refresh =
               (\/ tok.creds.token = None
                \/ ~tok.creds.expiry.set
                \/ Instant(tok.creds.expiry) <= tok.now)
        /\ (tok.out.raised => tok.out.endpoint_calls = 1)

\* The decision the code takes: as C5 but an expiry equal to now is fresh.
FreshnessDecisionOfCode ==
    (tok.pc = "done" /\ tok.out.decided) =>
        tok.out.needs_refresh =
            (\/ tok.creds.token = None
             \/ ~tok.creds.expiry.set
             \/ Instant(tok.creds.expiry) < tok.now)

\* C6: on a credential without a refresh_token, refresh_credentials_if_needed
\* returns the credential with every field unchanged, does not raise and
\* makes no call to the token endpoint, whatever access_token and expiry are.
C6_NoRefreshTokenUnchanged ==
    (tok.pc = "done" /\ ~Truthy(tok.creds.refresh_token)) =>
        /\ tok.out.creds = tok.creds
        /\ ~tok.out.raised
        /\ tok.out.endpoint_calls = 0

\* C6 witness: the call returned for a credential with no refresh_token whose
\* access token is absent (a refresh would be needed) and the endpoint would
\* have answered.
C6_Witness ==
    /\ tok.pc = "done"
    /\ tok.creds.refresh_token = None
    /\ tok.creds.token = None
    /\ tok.ep.kind = "ok"

\* C10: after any sequence of generate_api_key and revoke_api_key calls,
\* get_user_by_api_key(k) returns u for every key k that generate_api_key(u)
\* returned and that was not revoked since, and returns None for every string
\* generate_api_key never returned (the empty string, the digests included).
C10_KeyLookup ==
    /\ \A k \in LookupStrings :
        /\ k \in live => get_user_by_api_key(_load_api_keys, k) = generated[k]
        /\ k \notin DOMAIN generated => get_user_by_api_key(_load_api_keys, k) = None
    /\ lookup.done =>
        /\ lookup.key \in live => lookup.result = generated[lookup.key]
        /\ lookup.key \notin DOMAIN generated => lookup.result = None

\* C10 witness: a key that is still live was looked up and resolved to its
\* user after another key had been revoked.
C10_Witness ==
    /\ lookup.done
    /\ lookup.key \in live
    /\ lookup.result \in Users
    /\ (DOMAIN generated) \ live # {}

\* The author of a message is the current user, whose account id is g_me
\* and whose address is a@x.co, or the app posting for the user.
AuthoredByCurrentUser(m) ==
    \/ m.creator_name = "users/g_me"
    \/ Lower(m.creator_email) = "a@x.co"
    \/ m.creator_name = "users/app"

\* The run has nothing to recognise the user's own messages by: the userinfo
\* call gave no account id for a message carrying the id, or no user_id was
\* passed for a message carrying the address.
Unrecognisable(m) ==
    /\ m.creator_name # "users/app"
    /\ ~(chat.gaia = "g_me" /\ m.creator_name = "users/g_me")
    /\ ~(chat.user_id # "" /\ Lower(m.creator_email) = Lower(chat.user_id))

\* C3: whenever the newest fetched message (index 0 of the newest-first list)
\* is authored by the current user, run_chat_auto_reply returns a skipped
\* result with no replies, calls the agent zero times and posts nothing,
\* whatever the other messages and reply_to_latest are.
C3_OwnLastMessageSkips ==
    (chat.did_fetch /\ Len(chat.fetched) > 0 /\ AuthoredByCurrentUser(chat.fetched[1])) =>
        /\ chat.agent_calls = <<>>
        /\ chat.posts = <<>>
        /\ chat.pc = "done" =>
              /\ chat.result.kind = "skipped"
              /\ chat.result.replies = <<>>

\* What the code does guarantee: the same, for a newest message that the run
\* can recognise as the user's own.
OwnLastMessageRecognisedSkips ==
    (/\ chat.did_fetch
     /\ Len(chat.fetched) > 0
     /\ AuthoredByCurrentUser(chat.fetched[1])
     /\ ~Unrecognisable(chat.fetched[1])) =>
        /\ chat.pc = "done"
        /\ chat.result.kind = "skipped"
        /\ chat.result.replies = <<>>
        /\ chat.agent_calls = <<>>
        /\ chat.posts = <<>>

\* The failing case reached: the newest message is the user's own, the run
\* could not recognise it, and a reply to it was posted.
OwnLastMessageAnswered ==
    /\ chat.pc = "done"
    /\ Len(chat.fetched) > 0
    /\ AuthoredByCurrentUser(chat.fetched[1])
    /\ Unrecognisable(chat.fetched[1])
    /\ chat.agent_calls # <<>>
    /\ chat.posts # <<>>

Throws(name) ==
    IF name = "chat_auto_reply" THEN auto.fetch_spaces = "raise"
    ELSE auto.does[name] = "raise"

ErrorsOf(name) == {i \in 1..Len(auto.errors) : auto.errors[i].workflow = name}

Attempted(name) == \E i \in 1..Len(auto.calls) : auto.calls[i] = name

\* C2: run_all_workflows_for_user never raises; for every combination of the
\* three categories raising or not, each enabled category is attempted, one
\* that raises has status "error" and one entry in errors, one that does not
\* has status "ok" and no entry, whatever the others did; a category that is
\* not enabled is not run.
C2_WorkflowsIsolated ==
    /\ ~auto.raised
    /\ auto.pc = "done" =>
        \A name \in Categories :
            IF auto.include[name]
            THEN /\ Attempted(name)
                 /\ name \in DOMAIN auto.workflows
                 /\ IF Throws(name)
                    THEN /\ auto.workflows[name].status = "error"
                         /\ Cardinality(ErrorsOf(name)) = 1
                    ELSE /\ auto.workflows[name].status = "ok"
                         /\ ErrorsOf(name) = {}
            ELSE /\ ~Attempted(name)
                 /\ name \notin DOMAIN auto.workflows

\* C2 witness: all three categories enabled, the first two raise, the third
\* succeeds on a DM space whose own run raised.
C2_Witness ==
    /\ auto.pc = "done"
    /\ \A name \in Categories : auto.include[name]
    /\ Throws("smart_inbox")
    /\ Throws("document_intelligence")
    /\ ~Throws("chat_auto_reply")
    /\ auto.workflows["chat_auto_reply"].status = "ok"
    /\ \E i \in 1..Len(auto.workflows["chat_auto_reply"].spaces) :
           auto.workflows["chat_auto_reply"].spaces[i].error # ""

\* The last storage call was load_credentials for a user whose previous
\* storage call was a save_credentials that returned.
LoadAfterSave == hist.last.op = "load" /\ hist.last.after_save.valid

\* Token and expiry are both present in a credentials dict.
HasPair(dict) == Truthy(dict.token) /\ dict.expiry.set

DeadLoad == hist.last.op = "load" /\ hist.last.path = "dead"

\* C8 (amended): when the refresh inside load_credentials fails with a
\* scope or invalid_grant error, load_credentials returns absent and the
\* user's bootstrap record is deleted; every later load_credentials for the
\* user returns absent without a call to the token endpoint until
\* save_credentials is called again.
C8_DeadCredentialCleared ==
    /\ DeadLoad => (hist.last.absent /\ ~hist.last.raised)
    /\ \A u \in Users : hist.dead[u] => ~store.bootstrap[u].exists
    /\ (hist.last.op = "load" /\ hist.last.was_dead) =>
          /\ hist.last.absent
          /\ ~hist.last.raised
          /\ hist.last.endpoint_calls = 0

\* C8 (as claimed): the same, and all local state of the user is deleted.
C8_AllLocalStateDeleted ==
    /\ C8_DeadCredentialCleared
    /\ DeadLoad =>
          /\ ~store.bootstrap[hist.last.user].exists
          /\ ~store.legacy[hist.last.user].exists
          /\ ~store.automation_local[hist.last.user].exists

\* C8 witness: a load after the load that cleared the credential.
C8_Witness ==
    /\ hist.last.op = "load"
    /\ hist.last.was_dead
    /\ hist.last.absent
    /\ ~store.bootstrap[hist.last.user].exists

\* C9: save_credentials raises exactly when the local write fails; when it
\* returns, the bootstrap record of the credential is on disk, whatever the
\* Drive load and save did.
C9_SaveLocalOrRaise ==
    hist.last.op = "save" =>
        LET f == store.bootstrap[hist.last.user]
            c == hist.last.dict
        IN /\ hist.last.raised <=> hist.last.env.disk # "ok"
           /\ ~hist.last.raised =>
                 /\ f.exists /\ f.valid
                 /\ f.data.refresh_token = c.refresh_token
                 /\ f.data.client_id = c.client_id
                 /\ f.data.client_secret = c.client_secret
                 /\ f.data.scopes = c.scopes

\* C9 witness: the local write succeeds while the Drive load raises.
C9_Witness ==
    /\ hist.last.op = "save"
    /\ hist.last.env.disk = "ok"
    /\ hist.last.env.drive_load = "raise"
    /\ ~hist.last.raised
    /\ store.bootstrap[hist.last.user].exists

\* The users the pass iterates over.
Listed == {sched.users[i] : i \in 1..Len(sched.users)}

\* C1: in one pass of _run_automation_for_all_users no exception leaves the
\* loop; when the pass ends every listed user has been handled, exactly the
\* users whose own processing raised are counted as failed, and every user
\* whose processing did not raise and who is enabled with credentials was
\* run and is counted as processed, whatever happened to the others.
C1_FaultIsolation ==
    /\ ~sched.aborted
    /\ sched.pc = "done" =>
          /\ \A u \in Listed :
                /\ sched.outcome[u] # "none"
                /\ sched.outcome[u] = "failed" <=> sched.raised_in[u]
                /\ sched.outcome[u] = "processed" <=>
                      /\ ~sched.raised_in[u]
                      /\ sched.automation_on[u]
                      /\ sched.has_credentials[u]
          /\ sched.failed = Cardinality({u \in Listed : sched.raised_in[u]})
          /\ sched.processed =
                Cardinality({u \in Listed : sched.outcome[u] = "processed"})
          /\ sched.processed + sched.skipped + sched.failed = Len(sched.users)

\* C1 witness: a pass over two users in which the processing of the first
\* raised and the second was run.
C1_Witness ==
    /\ sched.pc = "done"
    /\ Len(sched.users) = 2
    /\ sched.raised_in[sched.users[1]]
    /\ sched.outcome[sched.users[1]] = "failed"
    /\ sched.outcome[sched.users[2]] = "processed"
    /\ sched.processed = 1
    /\ sched.failed = 1

\* C11: after revoke_api_key(u) every key ever issued to u resolves to
\* absent and every unrevoked key of another user still resolves to that
\* user; the call returns true exactly when u had a key, and a call that
\* returns false (a second revoke, a user with no keys) leaves the index file
\* as it was.
C11_RevokeRemovesOnlyOwnKeys ==
    revoked.done =>
        /\ \A k \in DOMAIN generated :
              get_user_by_api_key(_load_api_keys, k) =
                  IF k \in live THEN generated[k] ELSE None
        /\ \A k \in DOMAIN generated :
              generated[k] = revoked.user_id => k \notin live
        /\ revoked.ret = revoked.had
        /\ ~revoked.ret => api_keys_file = revoked.before

\* A revoke of a user with two keys while the other user holds a live key.
C11_Witness ==
    /\ revoked.done
    /\ revoked.ret
    /\ Cardinality({k \in DOMAIN generated : generated[k] = revoked.user_id}) = 2
    /\ \E k \in live : generated[k] # revoked.user_id

\* What get_user_workflow_toggles returns for the session user from store d
\* when the token endpoint, the disk and Drive all work.
TogglesReadFrom(d) ==
    get_user_workflow_toggles(d, SessionUser, settings.now, CalmEnv)

\* What C12 says is read after a successful write of body over store d.
TogglesExpected(d, body) ==
    [k \in DOMAIN DEFAULT_WORKFLOW_TOGGLES |->
        IF k \in DOMAIN body THEN body[k] ELSE TogglesReadFrom(d).value[k]]

\* C12: get_user_workflow_toggles returns exactly the five fixed names, all
\* enabled for a user with no stored toggles or no credentials; after a
\* successful set_user_workflow_toggles(u, partial) every name in partial
\* reads back as written and every other name reads as it did before the
\* write.
C12_TogglesMergeAsClaimed ==
    /\ settings.last.op = "get_toggles" /\ ~settings.last.raised =>
          DOMAIN settings.last.toggles = DOMAIN DEFAULT_WORKFLOW_TOGGLES
    /\ (settings.last.op = "get_toggles" /\ ~settings.last.raised
            /\ (~settings.last.before.drive[SessionUser].has_toggles
                   \/ (~settings.last.before.bootstrap[SessionUser].exists
                          /\ ~settings.last.before.legacy[SessionUser].exists))) =>
          settings.last.toggles = DEFAULT_WORKFLOW_TOGGLES
    /\ settings.last.op = "set_toggles" /\ ~settings.last.raised =>
          /\ ~TogglesReadFrom(store).raised
          /\ TogglesReadFrom(store).value =
                 TogglesExpected(settings.last.before, settings.last.body)

\* What holds of the code: the same, for the writes whose Drive read returned
\* the stored blob (or found none stored).
TogglesMergeWhenBlobRead ==
    /\ settings.last.op = "get_toggles" /\ ~settings.last.raised =>
          DOMAIN settings.last.toggles = DOMAIN DEFAULT_WORKFLOW_TOGGLES
    /\ (settings.last.op = "get_toggles" /\ ~settings.last.raised
            /\ (~settings.last.before.drive[SessionUser].has_toggles
                   \/ (~settings.last.before.bootstrap[SessionUser].exists
                          /\ ~settings.last.before.legacy[SessionUser].exists))) =>
          settings.last.toggles = DEFAULT_WORKFLOW_TOGGLES
    /\ (settings.last.op = "set_toggles" /\ ~settings.last.raised
            /\ (settings.last.drive_read = "ok"
                   \/ ~settings.last.before.drive[SessionUser].exists)) =>
          /\ ~TogglesReadFrom(store).raised
          /\ TogglesReadFrom(store).value =
                 TogglesExpected(settings.last.before, settings.last.body)

\* A write that succeeded although its Drive read returned nothing of the
\* stored blob, over toggles that had a name switched off.
TogglesWrittenOverUnreadBlob ==
    /\ settings.last.op = "set_toggles" /\ ~settings.last.raised
    /\ settings.last.drive_read = "none"
    /\ settings.last.before.drive[SessionUser].has_toggles
    /\ ~settings.last.before.drive[SessionUser].workflow_toggles.document_intelligence

\* C13: once set_user_automation_enabled(u, v) has returned without error,
\* get_user_automation_enabled(u) returns v, whatever the Drive blob holds
\* and whatever the token endpoint and Drive do during the read, until the
\* next set for u; with no local flag file and no credentials it returns
\* enabled.
C13_LocalFlagWins ==
    /\ settings.automation[SessionUser].known =>
          \A env \in Envs :
              LET g == get_user_automation_enabled(store, SessionUser, settings.now, env)
              IN /\ ~g.raised
                 /\ g.value = settings.automation[SessionUser].enabled
    /\ (settings.last.op = "get_automation" /\ settings.last.told.known) =>
          /\ ~settings.last.raised
          /\ settings.last.enabled = settings.last.told.enabled
    /\ (/\ settings.last.op = "get_automation"
        /\ ~settings.last.before.automation_local[SessionUser].exists
        /\ ~settings.last.before.bootstrap[SessionUser].exists
        /\ ~settings.last.before.legacy[SessionUser].exists) =>
          /\ ~settings.last.raised
          /\ settings.last.enabled

\* A read that returns the value set, switched off, while the Drive blob
\* still says enabled and the read of the blob fails.
C13_Witness ==
    /\ settings.last.op = "get_automation"
    /\ settings.last.told.known
    /\ ~settings.last.told.enabled
    /\ ~settings.last.enabled
    /\ settings.last.drive_read # "ok"
    /\ store.drive[SessionUser].automation_enabled = "true"

\* The value a successful write of the last call put into the Drive blob.
RemoteHoldsWritten ==
    LET blob == store.drive[SessionUser]
        body == settings.last.body
    IN /\ blob.exists
       /\ settings.last.op = "set_key" =>
             blob.oshaani_api_key =
                 IF Truthy(strip(settings.last.api_key))
                 THEN strip(settings.last.api_key) ELSE None
       /\ settings.last.op = "set_toggles" =>
             /\ blob.has_toggles
             /\ \A k \in (DOMAIN body) \cap (DOMAIN DEFAULT_WORKFLOW_TOGGLES) :
                   /\ k \in DOMAIN blob.workflow_toggles
                   /\ blob.workflow_toggles[k] = body[k]

\* What holds of the code: a remote-only write returns normally only with
\* the new value in the Drive blob, and a write that raises leaves the blob
\* as it was.
RemoteWriteReachedOrRaised ==
    settings.last.op \in {"set_key", "set_toggles"} =>
        /\ ~settings.last.raised => RemoteHoldsWritten
        /\ settings.last.raised =>
              store.drive[SessionUser] = settings.last.before.drive[SessionUser]
        /\ (~settings.last.before.bootstrap[SessionUser].exists
               /\ ~settings.last.before.legacy[SessionUser].exists) =>
              settings.last.raised /\ settings.last.err = "RuntimeError"

\* C14: set_user_oshaani_key and set_user_workflow_toggles return normally
\* only if the new value is in the user's Drive blob; a write that cannot
\* reach Drive, or a user without credentials, makes the call raise a
\* RuntimeError (HTTP 503) with the stored value unchanged; and a key that
\* was reported saved stays in the blob until the next write of the key.
C14_RemoteWriteOrRaiseAsClaimed ==
    /\ RemoteWriteReachedOrRaised
    /\ (settings.last.op \in {"set_key", "set_toggles"} /\ settings.last.raised) =>
          settings.last.err = "RuntimeError"
    /\ settings.key[SessionUser].known =>
          store.drive[SessionUser].oshaani_api_key = settings.key[SessionUser].key

\* A key reported saved and then gone from the blob after a toggle write
\* that also returned normally.
KeySavedThenLost ==
    /\ settings.key[SessionUser].known
    /\ settings.key[SessionUser].key = "k1"
    /\ settings.last.op = "set_toggles" /\ ~settings.last.raised
    /\ store.drive[SessionUser].oshaani_api_key = None

\* A key write that failed with an exception other than RuntimeError.
KeyWriteFailsOtherwise ==
    /\ settings.last.op = "set_key" /\ settings.last.raised
    /\ settings.last.err = "Exception"
    /\ settings.last.drive_read = "raise"

\* Whether sub occurs in s.
Occurs(sub, s) ==
    \E i \in 1..(Len(s) - Len(sub) + 1) : SubSeq(s, i, i + Len(sub) - 1) = sub

\* C17: for every user id that is an e-mail address, escaping it with
\* _safe_filename and unescaping the result the way list_users does gives the
\* id back.
C17_NameRoundTripAsClaimed ==
    \A n \in names.files : DecodeFilename(StripPrefix(n)) = names.user_id

\* What holds of the code: the id comes back when it has no underscore and
\* no ".at" right before the "@" or before a dot.
NameRoundTripWithoutMarks ==
    (/\ ~Occurs(<<"_">>, names.user_id)
     /\ ~Occurs(<<".", "a", "t", "@">>, names.user_id)
     /\ ~Occurs(<<".", "a", "t", ".">>, names.user_id)) =>
        \A n \in names.files : DecodeFilename(StripPrefix(n)) = names.user_id

\* The address a.at@x.co, saved and read back as another id.
NameReadBackDifferent ==
    /\ names.pc = "listed"
    /\ names.user_id = <<"a", ".", "a", "t", "@", "x", ".", "c", "o">>
    /\ names.listed = {<<"a", "_", "d", "o", "t", "@", "a", "t", "_", "x", ".", "c", "o">>}

\* The users with a bootstrap file in the store.
Bootstrapped == {u \in Users : store.bootstrap[u].exists}

\* What holds of the code for the two addresses of the store (whose file
\* names decode to the address): list_users() lists exactly the users with a
\* bootstrap file, whatever the Drive blobs hold; a user is listed after a
\* save that returned, and not listed after a delete or a credential-dead
\* load.
ListedExactlyBootstrapped ==
    /\ \A us \in list_users(store) : {us[i] : i \in 1..Len(us)} = Bootstrapped
    /\ (hist.last.op = "save" /\ ~hist.last.raised) => hist.last.user \in Bootstrapped
    /\ hist.last.op = "delete" => hist.last.user \notin Bootstrapped
    /\ (hist.last.op = "load" /\ hist.last.path = "dead") =>
          hist.last.user \notin Bootstrapped

\* A user with a Drive blob and no bootstrap file, after a credential-dead load.
RemoteOnlyUserNotListed ==
    /\ hist.last.op = "load" /\ hist.last.path = "dead"
    /\ store.drive[hist.last.user].exists
    /\ \A us \in list_users(store) : \A i \in 1..Len(us) : us[i] # hist.last.user

\* C15: list_users() returns exactly the user ids that have a local
\* bootstrap record: the id a save was made for while its file is there, and
\* nothing once the file is deleted.
C15_ListedAreBootstrappedAsClaimed ==
    names.pc = "listed" =>
        names.listed = {u \in {names.user_id} : BootstrapStem(u) \in names.files}

\* A listing made after the only bootstrap file was deleted.
ListedAfterDelete ==
    names.pc = "listed" /\ names.files = {} /\ names.listed = {}

WithUserId == {i \in conv.sent : i.entry # "mcp"}

\* Where user_id is passed, two calls of the agent carry the same
\* identifier only for the same workflow or space and for users whose ids
\* read alike once every character outside [a-zA-Z0-9_-] is an underscore.
ConversationIdScopedWhenUserIdPassed ==
    \A i \in WithUserId, j \in WithUserId :
        i.conv_id = j.conv_id =>
            /\ i.workflow = j.workflow
            /\ i.space = j.space
            /\ safe_user(i.user) = safe_user(j.user)

\* C18: two calls of the agent carry the same conversation identifier only
\* if they are for the same user and the same workflow (and, for chat, the
\* same space), over the scheduler, the HTTP endpoints and the MCP tools.
C18_ConversationIdNotSharedAsClaimed ==
    \A i \in conv.sent, j \in conv.sent :
        i.conv_id = j.conv_id =>
            /\ i.user = j.user
            /\ i.workflow = j.workflow
            /\ i.space = j.space

\* Two users call the MCP tool smart_inbox and both reach the agent under
\* the identifier built from an empty user id.
SmartInboxSharedOverMcp ==
    \E i \in conv.sent, j \in conv.sent :
        /\ i.entry = "mcp" /\ j.entry = "mcp"
        /\ i.user # j.user
        /\ i.conv_id = "ge-smart-inbox-" /\ j.conv_id = "ge-smart-inbox-"

\* Two users whose addresses differ in one punctuation mark run the smart
\* inbox over HTTP and share an identifier.
SmartInboxSharedAfterSubstitution ==
    \E i \in conv.sent, j \in conv.sent :
        /\ i.entry = "http" /\ j.entry = "http"
        /\ i.user # j.user
        /\ i.conv_id = "ge-smart-inbox-a_b_x_co" /\ j.conv_id = i.conv_id

\* The user a live API key was issued to, None for any other string.
KeyOwner(bearer) == IF bearer \in live THEN generated[bearer] ELSE None

\* C19: a request resolves to the user its bearer API key was issued to
\* when that key is live; otherwise to the user_id of its session when
\* there is one; otherwise it is answered 401 and the endpoint does not run.
C19_CurrentUserFromKeyOrSession ==
    authn.pc = "done" =>
        /\ KeyOwner(authn.bearer) # None =>
              /\ authn.status = 200
              /\ authn.ran_as = KeyOwner(authn.bearer)
        /\ KeyOwner(authn.bearer) = None /\ Truthy(authn.session) =>
              /\ authn.status = 200
              /\ authn.ran_as = authn.session
        /\ KeyOwner(authn.bearer) = None /\ ~Truthy(authn.session) =>
              /\ authn.status = 401
              /\ authn.ran_as = None

\* A request with a live key of one user and the session of the other ran
\* as the owner of the key.
C19_Witness ==
    /\ authn.pc = "done"
    /\ KeyOwner(authn.bearer) = "a@x.co"
    /\ authn.session = "b@y.co"
    /\ authn.ran_as = "a@x.co"

\* A request with a revoked key and no session was answered 401.
RevokedKeyUnauthorized ==
    /\ authn.pc = "done"
    /\ authn.bearer \in (DOMAIN generated) \ live
    /\ authn.session = None
    /\ authn.status = 401
    /\ authn.ran_as = None

\* The scopes a scope field lists: its maximal runs without whitespace.
ScopesIn(s) ==
    { Join(SubSeq(s, i, j)) : <<i, j>> \in
        { p \in (1..Len(s)) \X (1..Len(s)) :
            /\ p[1] <= p[2]
            /\ \A k \in p[1]..p[2] : s[k] # " "
            /\ (p[1] = 1 \/ s[p[1] - 1] = " ")
            /\ (p[2] = Len(s) \/ s[p[2] + 1] = " ") } }

ScopeSet(scopes) == {scopes[i] : i \in 1..Len(scopes)}

RequestedScopesWhenNoneReturned ==
    /\ xchg.pc = "done"
    /\ xchg.resp.status = 200 /\ ~xchg.resp.has_error /\ xchg.resp.has_access_token
    /\ ~xchg.resp.has_scope
    /\ xchg.raised = None
    /\ xchg.creds.scopes = GOOGLE_SCOPES

\* What load_credentials and get_user_automation_enabled return for a user
\* when nothing fails, on the files of a directory.
Returned(dr, user_id) ==
    LET l == load_credentials(FilesOf(dr), user_id, dr.now, CalmEnv)
    IN <<l.absent, l.ret,
         get_user_automation_enabled(FilesOf(dr), user_id, dr.now, CalmEnv).value>>

\* A storage call made for one user leaves what the calls return for every
\* user whose file names differ from that user's.
IsolatedWhenFileNamesDiffer ==
    [][\A b \in DirUsers :
          FileKey(b) # FileKey(dir'.user) => Returned(dir', b) = Returned(dir, b)]_vars

\* C21: a storage call made for user A changes nothing of what
\* load_credentials(B) and get_user_automation_enabled(B) return for any
\* other user B.
C21_UsersIsolatedAsClaimed ==
    [][\A b \in DirUsers :
          b # dir'.user => Returned(dir', b) = Returned(dir, b)]_vars

\* Credentials were saved for a_dot_b@x.co only, and load_credentials for
\* a.b@x.co returns them.
LoadsTheOtherUsersCredentials ==
    /\ dir.steps = 1
    /\ dir.user = <<"a", "_", "d", "o", "t", "_", "b", "@", "x", ".", "c", "o">>
    /\ ~Returned(dir, <<"a", ".", "b", "@", "x", ".", "c", "o">>)[1]

\* The access tokens of the model with the expiry each was issued with: the
\* one a login saves, and the one the token endpoint issues at the clock
\* reading of the behaviour.
IssuedWith(token, expiry) ==
    \/ token = "t0" /\ expiry.wall = 1
    \/ token = NewToken(hist.now) /\ expiry.wall = hist.now + 1

StoredToggles(u) ==
    IF store.drive[u].exists /\ store.drive[u].has_toggles
    THEN MergeToggles(store.drive[u].workflow_toggles)
    ELSE DEFAULT_WORKFLOW_TOGGLES

\* The pass runs chat auto-reply for a user only with the global flag on.
ChatAutoReplyOnlyWithGlobalFlag ==
    \A u \in Users :
        sched.run_args[u].include_chat_auto_reply =>
            sched.AUTOMATION_CHAT_AUTO_REPLY_ENABLED

\* C23: a scheduler pass runs a workflow for a user only if the user's
\* stored toggle for it is enabled (chat auto-reply also only with the
\* global flag on); a workflow stored as disabled is never run.
C23_OnlyEnabledWorkflowsRunAsClaimed ==
    \A u \in Users :
        sched.outcome[u] = "processed" =>
            /\ sched.run_args[u].include_smart_inbox => StoredToggles(u).smart_inbox
            /\ sched.run_args[u].include_document_intelligence =>
                   StoredToggles(u).document_intelligence
            /\ sched.run_args[u].include_chat_auto_reply =>
                   /\ StoredToggles(u).chat_auto_reply
                   /\ sched.AUTOMATION_CHAT_AUTO_REPLY_ENABLED

\* A user whose blob stores document_intelligence as disabled was processed
\* with document intelligence included.
DisabledWorkflowRun ==
    \E u \in Users :
        /\ sched.outcome[u] = "processed"
        /\ store.drive[u].has_toggles
        /\ ~store.drive[u].workflow_toggles.document_intelligence
        /\ sched.run_args[u].include_document_intelligence

\* The automation flag a user has stored is off: the local flag file says
\* so, or there is no readable local flag and the Drive blob says so.
StoredAutomationOff(u) ==
    IF store.automation_local[u].exists /\ store.automation_local[u].valid
    THEN ~store.automation_local[u].enabled
    ELSE store.drive[u].exists /\ store.drive[u].automation_enabled = "false"

\* At the end of a pass every listed user is in exactly one of processed,
\* skipped and failed, and a user whose flag was read as off or whose
\* credentials loaded as absent is skipped with no workflow invoked.
CountedOnceSkippedOnChecks ==
    sched.pc = "done" =>
        /\ sched.processed + sched.skipped + sched.failed = Len(sched.users)
        /\ sched.skipped = Cardinality({u \in Listed : sched.outcome[u] = "skipped"})
        /\ \A u \in Listed :
              /\ sched.outcome[u] \in {"processed", "skipped", "failed"}
              /\ ~sched.raised_in[u] /\ ~(sched.automation_on[u] /\ sched.has_credentials[u]) =>
                     sched.outcome[u] = "skipped" /\ sched.run_args[u] = NoArgs
              /\ store.automation_local[u].exists /\ store.automation_local[u].valid
                   /\ ~store.automation_local[u].enabled =>
                     sched.outcome[u] = "skipped" /\ sched.run_args[u] = NoArgs

\* C24: at the end of every pass each enumerated user is counted in exactly
\* one of processed, skipped and failed, and a user whose automation flag
\* is off is counted as skipped with no workflow invoked.
C24_CountedOnceOffUsersSkippedAsClaimed ==
    sched.pc = "done" =>
        /\ sched.processed + sched.skipped + sched.failed = Len(sched.users)
        /\ \A u \in Listed :
              StoredAutomationOff(u) =>
                  sched.outcome[u] = "skipped" /\ sched.run_args[u] = NoArgs

\* A user whose stored automation flag is off was processed by the pass.
AutomationOffUserProcessed ==
    /\ sched.pc = "done"
    /\ \E u \in Listed :
          /\ StoredAutomationOff(u)
          /\ sched.outcome[u] = "processed"
          /\ sched.run_args[u] # NoArgs

\* The agent calls and posts of a run follow the chosen messages: at most
\* reply_to_latest calls, for distinct messages, taken from the chosen
\* messages in their order; one post for each non-empty reply and none for
\* an empty one, which is recorded as an error of that message.
RepliesFollow(chosen) ==
    /\ Len(chat.agent_calls) <= chat.reply_to_latest
    /\ \A i, j \in 1..Len(chat.agent_calls) :
          i < j => chat.agent_calls[i] # chat.agent_calls[j]
    /\ \E f \in [1..Len(chat.agent_calls) -> 1..Len(chosen)] :
          /\ \A i, j \in 1..Len(chat.agent_calls) : i < j => f[i] < f[j]
          /\ \A i \in 1..Len(chat.agent_calls) : chosen[f[i]].name = chat.agent_calls[i]
    /\ Len(chat.result.replies) <= Len(chat.agent_calls)
    /\ Len(chat.posts) =
          Cardinality({i \in 1..Len(chat.result.replies) : chat.result.replies[i].reply # None})
    /\ \A i \in 1..Len(chat.result.replies) :
          chat.result.replies[i].reply = None =>
              /\ chat.result.replies[i].error = "Empty agent response"
              /\ ~chat.result.replies[i].posted

\* The same for the messages the run does not recognise as the user's own.
RepliesFollowEligible ==
    chat.did_fetch =>
        RepliesFollow(Take(Eligible(chat.fetched, chat.gaia_id, Lower(chat.user_id)),
                           chat.reply_to_latest))

\* C25: in a run of run_chat_auto_reply that is not skipped the agent is
\* called at most reply_to_latest times, each call for a distinct fetched
\* message not authored by the current user, the most recent such messages
\* in newest-first order, with at most one post per call and none for an
\* empty reply, which is recorded as an error of that message.
C25_RepliesToLatestOthersAsClaimed ==
    chat.did_fetch =>
        RepliesFollow(Take(SelectSeq(chat.fetched, LAMBDA m : ~AuthoredByCurrentUser(m)),
                           chat.reply_to_latest))

\* The agent was called for a message of the current user that is not the
\* newest of the space, and the reply was posted.
OwnOlderMessageAnswered ==
    /\ chat.pc = "done"
    /\ Len(chat.fetched) > 1
    /\ ~AuthoredByCurrentUser(chat.fetched[1])
    /\ AuthoredByCurrentUser(chat.fetched[2])
    /\ \E i \in 1..Len(chat.agent_calls) : chat.agent_calls[i] = chat.fetched[2].name
    /\ Len(chat.posts) = 2

\* The passes of the interval job never overlap one another, and the timer
\* starts one pass only.
IntervalPassesOneAtATime ==
    /\ passes.instances <= MaxInstances
    /\ passes.active = passes.instances + (IF passes.timer = "running" THEN 1 ELSE 0)

\* C26: at no time are two executions of the automation pass running at
\* once, counting the one-off pass started after startup and the passes of
\* the recurring interval job.
C26_OnePassAtATimeAsClaimed ==
    passes.active <= 1

\* The one-off pass is still running when the first pass of the interval
\* job begins.
TwoPassesRunning ==
    /\ passes.timer = "running"
    /\ passes.instances = 1
    /\ passes.active = 2

\* The last call was get_user_oshaani_key for a user who had a legacy
\* settings file when it was made.
KeyReadWithLegacyFile(u) ==
    /\ settings.last.op = "get_key"
    /\ settings.last.user = u
    /\ settings.last.before.user_settings[u].exists

\* Whatever the store holds, a get_user_oshaani_key call removes a legacy
\* settings file that can be parsed, unless its load_credentials call raises.
LegacySettingsRemovedUnlessLoadRaises ==
    \A u \in Users, env \in SettingsEnvs :
        (/\ store.user_settings[u].exists
         /\ store.user_settings[u].valid
         /\ ~load_credentials(store, u, settings.now, env).raised) =>
            ~get_user_oshaani_key(store, u, settings.now, env).store.user_settings[u].exists

\* C27: after a get_user_oshaani_key call made while a legacy settings file
\* of the user exists the file no longer exists, whether the migration
\* succeeded, failed or could not be attempted (unreadable file, credential
\* load failure).
C27_LegacySettingsRemovedAsClaimed ==
    \A u \in Users :
        KeyReadWithLegacyFile(u) => ~store.user_settings[u].exists

\* The legacy settings file is still there after the call: it could not be
\* parsed.
UnparsedLegacySettingsKept ==
    \E u \in Users :
        /\ KeyReadWithLegacyFile(u)
        /\ ~settings.last.before.user_settings[u].valid
        /\ store.user_settings[u].exists

\* The legacy settings file is still there after the call: load_credentials
\* raised.
LegacySettingsKeptOnLoadError ==
    \E u \in Users :
        /\ KeyReadWithLegacyFile(u)
        /\ settings.last.before.user_settings[u].valid
        /\ settings.last.raised
        /\ store.user_settings[u].exists

DriveCredentialReturned ==
    /\ hist.last.op = "load" /\ hist.last.path = "drive"
    /\ ~Truthy(store.bootstrap[hist.last.user].data.refresh_token)
    /\ hist.last.ret = store.drive[hist.last.user].credentials

\* The fields of a Drive blob that the settings writer op does not write.
OtherFields(op, blob) ==
    [credentials |-> IF blob.has_credentials THEN blob.credentials ELSE NoDict,
     has_credentials |-> blob.has_credentials,
     oshaani_api_key |-> IF op = "set_key" THEN None ELSE blob.oshaani_api_key,
     workflow_toggles |->
         IF op = "set_toggles" \/ ~blob.has_toggles THEN [k \in {} |-> TRUE]
         ELSE blob.workflow_toggles,
     has_toggles |-> op # "set_toggles" /\ blob.has_toggles,
     automation_enabled |-> IF op = "set_automation" THEN None ELSE blob.automation_enabled]

\* The last call was a write of one field of the user's Drive blob.
FieldWritten ==
    settings.last.op \in {"set_toggles", "set_key", "set_automation"}

\* A write of one field leaves the other fields of the blob as they were
\* when the blob could be read.
OtherFieldsKeptWhenBlobRead ==
    (FieldWritten /\ settings.last.drive_read = "ok") =>
        OtherFields(settings.last.op, store.drive[settings.last.user]) =
            OtherFields(settings.last.op, settings.last.before.drive[settings.last.user])

\* C29: every write of one field of a user's Drive blob (oshaani_api_key,
\* workflow_toggles, automation_enabled) leaves every other field of the
\* blob unchanged, whatever the outcomes of the remote read and write, also
\* when the read fails and the write succeeds.
C29_OtherFieldsKeptAsClaimed ==
    FieldWritten =>
        OtherFields(settings.last.op, store.drive[settings.last.user]) =
            OtherFields(settings.last.op, settings.last.before.drive[settings.last.user])

\* The read of the blob returned nothing, the write succeeded, and the
\* workflow toggles stored in the blob are gone after a write of the
\* automation flag.
TogglesLostByFlagWrite ==
    /\ settings.last.op = "set_automation"
    /\ settings.last.drive_read = "none"
    /\ ~settings.last.raised
    /\ settings.last.before.drive[settings.last.user].has_toggles
    /\ ~store.drive[settings.last.user].has_toggles
    /\ store.drive[settings.last.user].automation_enabled # None

\* The keys of the user of an idle thread resolve as the thread's completed
\* calls left them: a key returned by generate_api_key and not revoked
\* since resolves to the user, a key revoked resolves to nothing.
KeysAsCompletedCallsLeftThem ==
    \A t \in Threads :
        race.pc[t] = "idle" =>
            /\ \A k \in race.live[UserOf(t)] :
                  get_user_by_api_key(race.file, k) = UserOf(t)
            /\ \A k \in race.gone[UserOf(t)] :
                  get_user_by_api_key(race.file, k) = None

\* As long as no call started between the load and the save of another,
\* the keys resolve as the completed calls left them.
KeysKeptWhenCallsDoNotOverlap ==
    ~race.overlapped => KeysAsCompletedCallsLeftThem

\* C30: when generate_api_key and revoke_api_key run concurrently for
\* different users, every key returned by a completed generate still
\* resolves to its user and every key of a user whose revoke completed
\* resolves to nothing: no update is lost or resurrected.
C30_NoLostOrResurrectedKeyAsClaimed ==
    KeysAsCompletedCallsLeftThem

\* A key that a completed generate_api_key returned for one user resolves
\* to nothing after a revoke_api_key of the other user completed.
ReturnedKeyLost ==
    /\ \A t \in Threads : race.pc[t] = "idle"
    /\ \E k \in race.live["a@x.co"] : get_user_by_api_key(race.file, k) = None
    /\ race.gone["b@y.co"] # {}

\* A key of a user whose revoke_api_key completed resolves to the user
\* again after a generate_api_key of the other user completed.
RevokedKeyResurrected ==
    /\ \A t \in Threads : race.pc[t] = "idle"
    /\ \E k \in race.gone["b@y.co"] : get_user_by_api_key(race.file, k) = "b@y.co"
    /\ race.live["a@x.co"] # {}

====
